---- MODULE Spec2Model ----
(***************************************************************************)
(* Verification model of the Elasticsearch MCP server                      *)
(* (TocharianOU/mcp-server-elasticsearch-sl).                              *)
(*                                                                         *)
(* Ten state machines share the variables below:                           *)
(*   Spec         the tool handlers of a running server (one action per    *)
(*                handler: list_indices, get_mappings, es_search,          *)
(*                execute_es_api, get_shards, list_data_streams);          *)
(*   SpecStartup  createElasticsearchMcpServer, one action per await;      *)
(*   SpecHttp     main() in HTTP transport mode, one action per request;   *)
(*   SpecProbe    the promise of detectESVersion, one action per event     *)
(*                of the request;                                          *)
(*   SpecAnalyze  analyzeDataStreamHealth applied to a data stream;        *)
(*   SpecShards   analyzeShardHealth applied to the rows of cat.shards;    *)
(*   SpecIndices  groupIndicesByPattern and the health sort applied to a   *)
(*                list of indices;                                         *)
(*   SpecMappings detectCapabilities applied to a field definition;        *)
(*   SpecBatches  the batched indices.stats calls of list_data_streams;    *)
(*   SpecSearchRequest  the request es_search builds from its arguments.   *)
(*                                                                         *)
(* A text is modelled by its length in UTF-16 code units (JavaScript's     *)
(* String.length); concatenation is addition.  The fixed parts of every    *)
(* template literal are the measured lengths of the literals in the        *)
(* source, the interpolated numbers are measured by DecLen / LocaleLen /   *)
(* PercentLen.  The cluster's answer is modelled by the sizes of the       *)
(* renderings the analyzers make of it, drawn from RenderLens.             *)
(***************************************************************************)
EXTENDS Integers, Sequences, FiniteSets, TLC

VARIABLES
    pc,              \* position inside createElasticsearchMcpServer
    config,          \* the configuration handed to createElasticsearchMcpServer
    versionInfo,     \* ESVersionInfo resolved by detectESVersion
    esClient,        \* the client handle made by createVersionedClient
    steps,           \* startup steps that have succeeded, in order
    registeredTools, \* tools registered on the McpServer
    maxTokenCall,    \* MAX_TOKEN_CALL read at startup
    call,            \* arguments of the last tool call or HTTP request
    data,            \* what the cluster answered to the last tool call
    out,             \* what the last tool call returned
    probes,          \* calls of detectESVersion made by this process
    clientsBuilt,    \* clients constructed by this process
    probe,           \* the promise and the request of a detectESVersion call
    transports       \* HTTP mode: the [id, transport] entries of the Map

vars == <<pc, config, versionInfo, esClient, steps, registeredTools,
          maxTokenCall, call, data, out, probes, clientsBuilt, probe,
          transports>>

startupVars == <<pc, config, versionInfo, esClient, steps, registeredTools,
                 maxTokenCall, probes, clientsBuilt, probe, transports>>

netVars == <<probe, transports>>

(***************************************************************************)
(* Bounds of the model.                                                    *)
(***************************************************************************)
SmallBudget == 150     \* a small MAX_TOKEN_CALL, in tokens
LongLen == 100000      \* a rendering longer than the default budget, in chars
NameLen == 6           \* length of a pattern / index argument such as logs-*
ErrMsgLen == 40        \* length of the message of an error thrown by the client
RawIndexRecordLen == 160  \* one pretty-printed cat.indices record
IndexRecordLen == 130     \* one pretty-printed detailedList record
SuggestionsLen == 90      \* a non-empty generateSuggestions text
FieldCount == 12          \* fields of a flattened mapping
MinimalItemLen == 90      \* formatMinimal of one data stream
CompactItemLen == 500     \* formatCompact of one data stream
MaxIdx == 2               \* indices in a mapping response
MaxHits == 2              \* hits of a search
MinMajor == 2             \* oldest major version probed
MaxMajor == 10            \* newest major version probed
MaxMinor == 11            \* highest minor version probed
MaxSessions == 2          \* HTTP sessions opened
MaxProbes == 3            \* runs of createElasticsearchMcpServer in HTTP mode

DefaultBudget == 20000

Budgets == {SmallBudget, DefaultBudget}
\* sizes of a rendering: one that measures exactly SmallBudget tokens, one
\* that exceeds every budget
RenderLens == {4 * SmallBudget, LongLen}
\* sizes of a rendering of bounded length (a minimal summary, a comparison):
\* exactly SmallBudget tokens, or twice that
ShortRenderLens == {4 * SmallBudget, 8 * SmallBudget}

(***************************************************************************)
(* Text measures.                                                          *)
(***************************************************************************)
Abs(n) == IF n < 0 THEN -n ELSE n

Min(a, b) == IF a <= b THEN a ELSE b

RECURSIVE DecLen(_)
\* number of decimal digits of n >= 0: `${n}`
DecLen(n) == IF n < 10 THEN 1 ELSE 1 + DecLen(n \div 10)

\* n.toLocaleString(): sign, digits and one separator per group of three
LocaleLen(n) ==
    LET d == DecLen(Abs(n))
    IN  (IF n < 0 THEN 1 ELSE 0) + d + ((d - 1) \div 3)

\* ((s / o) * 100).toFixed(1), o > 0: sign, integer digits, point, one digit
PercentLen(s, o) ==
    LET tenths == (2000 * Abs(s) + o) \div (2 * o)
    IN  (IF s < 0 THEN 1 ELSE 0) + DecLen(tenths \div 10) + 2

\* JSON.stringify(list, null, 2) of n records of itemLen characters each
PrettyListLen(n, itemLen) ==
    IF n = 0 THEN 2 ELSE 4 + n * itemLen + 2 * (n - 1)

\* calculateTokens: the estimate of the fallback branch, ceil(length / 4)
calculateTokens(len) == (len + 3) \div 4

RECURSIVE SumSeq(_)
SumSeq(s) == IF s = <<>> THEN 0 ELSE Head(s) + SumSeq(Tail(s))

\* JSON.stringify({content: [{type: "text", text: t1}, ...]}) for the texts
\* of the given lengths (escape sequences inside the texts not counted)
ContentJsonLen(frags) ==
    12 + SumSeq(frags) + 25 * Len(frags)
       + (IF Len(frags) > 1 THEN Len(frags) - 1 ELSE 0) + 2

\* the error text of checkTokenLimit
TokenLimitErrorLen(tokens, maxTokens) ==
    440 + DecLen(tokens) + DecLen(maxTokens)

CheckTokenLimitNoLimit(frags, maxTokens, breakRule) ==
    [allowed |-> TRUE,
     tokens |-> IF breakRule THEN 0
                ELSE calculateTokens(ContentJsonLen(frags)),
     calcs |-> IF breakRule THEN 0 ELSE 1, errorLen |-> 0]

CheckTokenLimitBroken(frags, maxTokens, breakRule) ==
    LET tokens == calculateTokens(ContentJsonLen(frags))
    IN  IF tokens > maxTokens
        THEN [allowed |-> FALSE, tokens |-> tokens, calcs |-> 1,
              errorLen |-> TokenLimitErrorLen(tokens, maxTokens)]
        ELSE [allowed |-> TRUE, tokens |-> tokens, calcs |-> 1, errorLen |-> 0]

\* checkTokenLimit(result, maxTokens, breakRule); calcs counts the calls of
\* calculateTokens it makes
checkTokenLimit(frags, maxTokens, breakRule) ==
    IF breakRule
    THEN [allowed |-> TRUE, tokens |-> 0, calcs |-> 0, errorLen |-> 0]
    ELSE LET tokens == calculateTokens(ContentJsonLen(frags))
         IN  IF tokens > maxTokens
             THEN [allowed |-> FALSE, tokens |-> tokens, calcs |-> 1,
                   errorLen |-> TokenLimitErrorLen(tokens, maxTokens)]
             ELSE [allowed |-> TRUE, tokens |-> tokens, calcs |-> 1,
                   errorLen |-> 0]

(***************************************************************************)
(* Results of a handler.                                                   *)
(*   kind      what the returned content is                                *)
(*   level     the level / mode the text reports ("" when none)            *)
(*   bodyLen   length of the chosen rendering, before messages and footer  *)
(*   len       length of all returned text                                 *)
(*   isError   the isError flag of the result                              *)
(*   checked   a comparison with maxTokenCall decided what was returned    *)
(*   calcs     number of calculateTokens calls made                        *)
(*   fallback  the detailed view was replaced by a summary                 *)
(***************************************************************************)
NoOut ==
    [kind |-> "none", level |-> "", bodyLen |-> 0, len |-> 0,
     isError |-> FALSE, checked |-> FALSE, calcs |-> 0, fallback |-> FALSE]

\* a catch block that logs and throws the error again: the handler's
\* promise is rejected and nothing is returned
CaughtErrorRethrown(errLen) ==
    [kind |-> "rejected", level |-> "", bodyLen |-> 0, len |-> 0,
     isError |-> FALSE, checked |-> FALSE, calcs |-> 0, fallback |-> FALSE]

\* the catch block of every handler: `Error: ${error.message}`
CaughtError(errLen) ==
    [kind |-> "caughtError", level |-> "", bodyLen |-> 0, len |-> 7 + errLen,
     isError |-> FALSE, checked |-> FALSE, calcs |-> 0, fallback |-> FALSE]

(***************************************************************************)
(* list_indices (src/src/tools/list-indices.ts).                           *)
(*   c: pattern, health_filter (given or not), summary_mode,               *)
(*      summary_level, max_display, break_token_rule                       *)
(*   d: fails (cat.indices throws), n (indices left after the health       *)
(*      filter), fullLen / compactLen / minimalLen (formatSummaryText,     *)
(*      formatCompactSummary, formatMinimalSummary of the summary),        *)
(*      suggLen (generateSuggestions)                                      *)
(***************************************************************************)
AUTO_SUMMARY_THRESHOLD == 200

LevelLen(level) == Len(level)

\* "Full summary would exceed token limit (...). Auto-switched to compact"
LI_AutoCompactMsgLen(fullTokens) == 85 + LocaleLen(fullTokens)

\* "Full (...) and Compact (...) summaries exceed token limit. ..."
LI_AutoMinimalMsgLen(fullTokens, compactTokens) ==
    115 + LocaleLen(fullTokens) + LocaleLen(compactTokens)

\* "Large index set detected (n indices). Auto-switched to summary mode."
LI_LargeSetMsgLen(n) == 73 + DecLen(n)

\* the "Token Usage Statistics" footer
LI_StatsFooterLen(level, originalTokens, optimizedTokens, maxTokens) ==
    276 + LevelLen(level) + LocaleLen(originalTokens)
        + LocaleLen(optimizedTokens)
        + LocaleLen(originalTokens - optimizedTokens)
        + PercentLen(originalTokens - optimizedTokens, originalTokens)
        + LocaleLen(maxTokens)

\* "Token limit would be exceeded with detailed view (...). Auto-switched
\* to <level> summary mode."
LI_FallbackMsgLen(tokens, level) == 97 + LocaleLen(tokens) + LevelLen(level)

\* "Use 'pattern' to filter, or set break_token_rule: true to force ..."
LI_FallbackHintLen == 82

\* "Found n indices [matching pattern '..'][ with health '..'][Showing ..]"
LI_FoundLen(c, n, displayCount) ==
    14 + DecLen(n)
       + (IF c.pattern THEN 20 + NameLen ELSE 0)
       + (IF c.health_filter THEN 15 + NameLen ELSE 0)
       + (IF n > displayCount
          THEN 118 + DecLen(displayCount) + DecLen(n) ELSE 0)

LI_UseSummaryAlways(c, n) ==
    c.summary_mode \/ n > AUTO_SUMMARY_THRESHOLD \/ c.max_display = 0

\* useSummary = summary_mode || (isLargeSet && max_display === 100)
\*              || max_display === 0
LI_UseSummary(c, n) ==
    \/ c.summary_mode
    \/ (n > AUTO_SUMMARY_THRESHOLD /\ c.max_display = 100)
    \/ c.max_display = 0

LI_AutoLevelCompactFirst(d, maxTokens, breakRule) ==
    LET fullTokens == calculateTokens(d.fullLen)
        compactTokens == calculateTokens(d.compactLen)
    IN  IF compactTokens <= maxTokens \/ breakRule
        THEN [level |-> "compact", bodyLen |-> d.compactLen, calcs |-> 1,
              fullTokens |-> fullTokens, compactTokens |-> compactTokens]
        ELSE IF fullTokens <= maxTokens
             THEN [level |-> "full", bodyLen |-> d.fullLen, calcs |-> 2,
                   fullTokens |-> fullTokens, compactTokens |-> compactTokens]
             ELSE [level |-> "minimal", bodyLen |-> d.minimalLen, calcs |-> 2,
                   fullTokens |-> fullTokens, compactTokens |-> compactTokens]

\* the ladder full -> compact -> minimal of the auto level; breakRule is
\* break_token_rule on the direct path and FALSE on the fallback path
LI_AutoLevel(d, maxTokens, breakRule) ==
    LET fullTokens == calculateTokens(d.fullLen)
        compactTokens == calculateTokens(d.compactLen)
    IN  IF fullTokens <= maxTokens \/ breakRule
        THEN [level |-> "full", bodyLen |-> d.fullLen, calcs |-> 1,
              fullTokens |-> fullTokens, compactTokens |-> 0]
        ELSE IF compactTokens <= maxTokens \/ breakRule
             THEN [level |-> "compact", bodyLen |-> d.compactLen, calcs |-> 2,
                   fullTokens |-> fullTokens, compactTokens |-> compactTokens]
             ELSE [level |-> "minimal", bodyLen |-> d.minimalLen, calcs |-> 2,
                   fullTokens |-> fullTokens, compactTokens |-> compactTokens]

\* manual level selection (the switch on actualLevel)
LI_ManualLevel(c, d) ==
    [level |-> c.summary_level,
     bodyLen |-> CASE c.summary_level = "full" -> d.fullLen
                   [] c.summary_level = "compact" -> d.compactLen
                   [] c.summary_level = "minimal" -> d.minimalLen,
     calcs |-> 0, fullTokens |-> 0, compactTokens |-> 0]

\* the summary view (useSummary branch)
LI_SummaryView(c, d, maxTokens) ==
    LET originalTokens ==
            calculateTokens(PrettyListLen(d.n, RawIndexRecordLen))
        isAuto == c.summary_level = "auto"
        sel == IF isAuto
               THEN LI_AutoLevel(d, maxTokens, c.break_token_rule)
               ELSE LI_ManualLevel(c, d)
        autoSwitchLen ==
            IF isAuto /\ sel.level = "compact"
            THEN LI_AutoCompactMsgLen(sel.fullTokens)
            ELSE IF isAuto /\ sel.level = "minimal"
                 THEN LI_AutoMinimalMsgLen(sel.fullTokens, sel.compactTokens)
                 ELSE 0
        optimizedTokens == calculateTokens(sel.bodyLen)
        footerLen == LI_StatsFooterLen(sel.level, originalTokens,
                                       optimizedTokens, maxTokens)
        prefixLen ==
            IF autoSwitchLen > 0
            THEN autoSwitchLen
            ELSE IF d.n > AUTO_SUMMARY_THRESHOLD /\ ~c.summary_mode
                    /\ sel.level # "minimal"
                 THEN LI_LargeSetMsgLen(d.n)
                 ELSE 0
    IN  [kind |-> "summary", level |-> sel.level, bodyLen |-> sel.bodyLen,
         len |-> prefixLen + sel.bodyLen + footerLen + d.suggLen,
         isError |-> FALSE,
         checked |-> isAuto /\ ~c.break_token_rule,
         calcs |-> 2 + sel.calcs, fallback |-> FALSE]

LI_DetailedViewNoFallback(c, d, maxTokens) ==
    LET displayCount ==
            Min(d.n, IF c.max_display = 0 THEN 100 ELSE c.max_display)
        foundLen == LI_FoundLen(c, d.n, displayCount)
        listLen == PrettyListLen(displayCount, IndexRecordLen)
        tokenCheck == checkTokenLimit(<<foundLen, listLen>>, maxTokens,
                                      c.break_token_rule)
    IN  IF ~tokenCheck.allowed
        THEN [kind |-> "limitError", level |-> "", bodyLen |-> 0,
              len |-> tokenCheck.errorLen, isError |-> TRUE,
              checked |-> TRUE, calcs |-> tokenCheck.calcs,
              fallback |-> FALSE]
        ELSE [kind |-> "detailed", level |-> "", bodyLen |-> foundLen + listLen,
              len |-> foundLen + listLen, isError |-> FALSE,
              checked |-> ~c.break_token_rule,
              calcs |-> tokenCheck.calcs, fallback |-> FALSE]

\* the detailed view and its fallback to the summary
LI_DetailedView(c, d, maxTokens) ==
    LET displayCount ==
            Min(d.n, IF c.max_display = 0 THEN 100 ELSE c.max_display)
        foundLen == LI_FoundLen(c, d.n, displayCount)
        listLen == PrettyListLen(displayCount, IndexRecordLen)
        tokenCheck == checkTokenLimit(<<foundLen, listLen>>, maxTokens,
                                      c.break_token_rule)
        originalTokens ==
            calculateTokens(PrettyListLen(d.n, RawIndexRecordLen))
        sel == LI_AutoLevel(d, maxTokens, FALSE)
        optimizedTokens == calculateTokens(sel.bodyLen)
    IN  IF ~tokenCheck.allowed
        THEN [kind |-> "summary", level |-> sel.level,
              bodyLen |-> sel.bodyLen,
              len |-> LI_FallbackMsgLen(tokenCheck.tokens, sel.level)
                      + sel.bodyLen
                      + LI_StatsFooterLen(sel.level, originalTokens,
                                          optimizedTokens, maxTokens)
                      + d.suggLen + LI_FallbackHintLen,
              isError |-> FALSE, checked |-> TRUE,
              calcs |-> tokenCheck.calcs + 2 + sel.calcs,
              fallback |-> TRUE]
        ELSE [kind |-> "detailed", level |-> "", bodyLen |-> foundLen + listLen,
              len |-> foundLen + listLen, isError |-> FALSE,
              checked |-> ~c.break_token_rule,
              calcs |-> tokenCheck.calcs, fallback |-> FALSE]

\* the handler of list_indices
ListIndicesHandler(c, d, maxTokens) ==
    IF d.fails
    THEN CaughtError(ErrMsgLen)
    ELSE IF LI_UseSummary(c, d.n)
         THEN LI_SummaryView(c, d, maxTokens)
         ELSE LI_DetailedView(c, d, maxTokens)

(***************************************************************************)
(* get_mappings (src/src/tools/execute-api.ts, registerGetMappings).       *)
(*   c: summary_level, field_pattern / field_type / field_capability       *)
(*      (given or not), compare_mode, break_token_rule                     *)
(*   d: fails, nIdx (indices in the mapping response), rawLen (pretty      *)
(*      JSON of one index's mappings), minimalLen / compactLen             *)
(*      (formatMinimal / formatCompact of one summary), comparisonLen      *)
(*      (formatComparison of compareMappings)                              *)
(***************************************************************************)
GM_HasFilters(c) == c.field_pattern \/ c.field_type \/ c.field_capability

\* JSON.stringify(mappingResponse, null, 2): every index's mappings under
\* its name (the deeper indentation of the nested lines not counted)
GM_ResponseJsonLen(d) ==
    IF d.nIdx = 0 THEN 2
    ELSE 4 + d.nIdx * (NameLen + 28 + d.rawLen) + 2 * (d.nIdx - 1)

\* `No indices found matching pattern: ${index}`
GM_NoIndicesLen == 35 + NameLen

\* the filter information appended for a single index
GM_FilterInfoLen(c) ==
    92 + 2 * DecLen(FieldCount)
       + (IF c.field_pattern THEN 13 + NameLen ELSE 0)
       + (IF c.field_type THEN 10 + NameLen ELSE 0)
       + (IF c.field_capability THEN 16 + NameLen ELSE 0)

\* text of the multi-index comparison mode
GM_CompareText(c, d) ==
    d.comparisonLen
    + (IF c.summary_level # "minimal"
       THEN 84 + (IF c.summary_level = "compact"
                  THEN d.nIdx * (d.compactLen + 1) ELSE 0)
       ELSE 0)

\* text for a single index
GM_SingleText(c, d) ==
    (CASE c.summary_level = "full" -> 19 + NameLen + d.rawLen
       [] c.summary_level = "compact" -> d.compactLen
       [] OTHER -> d.minimalLen)
    + (IF GM_HasFilters(c) THEN GM_FilterInfoLen(c) ELSE 0)

\* the token statistics footer
GM_StatsFooterLen(level, originalTokens, optimizedTokens, maxTokens) ==
    214 + LevelLen(level) + LocaleLen(originalTokens)
        + LocaleLen(optimizedTokens)
        + LocaleLen(originalTokens - optimizedTokens)
        + PercentLen(originalTokens - optimizedTokens, originalTokens)
        + LocaleLen(maxTokens)

\* the suggestion returned when the budget is exceeded
GM_SuggestionLen(c, d, errorLen) ==
    errorLen + 39 + LevelLen(c.summary_level) + DecLen(d.nIdx)
             + (IF ~GM_HasFilters(c) THEN 107 ELSE 46)

GetMappingsHandlerUnchecked(c, d, maxTokens) ==
    IF d.fails
    THEN CaughtError(ErrMsgLen)
    ELSE [kind |-> "mapping", level |-> c.summary_level,
          bodyLen |-> d.minimalLen, len |-> d.minimalLen,
          isError |-> FALSE, checked |-> ~c.break_token_rule,
          calcs |-> 2, fallback |-> FALSE]

\* the handler of get_mappings
GetMappingsHandler(c, d, maxTokens) ==
    IF d.fails
    THEN CaughtError(ErrMsgLen)
    ELSE IF d.nIdx = 0
    THEN [kind |-> "noResults", level |-> "", bodyLen |-> 0,
          len |-> GM_NoIndicesLen, isError |-> FALSE, checked |-> FALSE,
          calcs |-> 0, fallback |-> FALSE]
    ELSE
    LET shouldCompare == c.compare_mode \/ d.nIdx > 1
        measured == c.summary_level # "full"
        originalTokens ==
            IF measured THEN calculateTokens(GM_ResponseJsonLen(d)) ELSE 0
        bodyLen == IF shouldCompare /\ d.nIdx > 1
                   THEN GM_CompareText(c, d)
                   ELSE GM_SingleText(c, d)
        withFooter == measured /\ originalTokens > 0
        textLen ==
            bodyLen + (IF withFooter
                       THEN GM_StatsFooterLen(c.summary_level, originalTokens,
                                calculateTokens(bodyLen), maxTokens)
                       ELSE 0)
        tokenCheck == checkTokenLimit(<<textLen>>, maxTokens,
                                      c.break_token_rule)
        calcs == (IF measured THEN 1 ELSE 0) + (IF withFooter THEN 1 ELSE 0)
                 + tokenCheck.calcs
    IN  IF ~tokenCheck.allowed
        THEN [kind |-> "limitError", level |-> c.summary_level,
              bodyLen |-> 0,
              len |-> GM_SuggestionLen(c, d, tokenCheck.errorLen),
              isError |-> TRUE, checked |-> TRUE, calcs |-> calcs,
              fallback |-> FALSE]
        ELSE [kind |-> IF shouldCompare /\ d.nIdx > 1
                       THEN "comparison"
                       ELSE IF c.summary_level = "full" THEN "raw"
                       ELSE "mapping",
              level |-> c.summary_level, bodyLen |-> bodyLen,
              len |-> textLen, isError |-> FALSE,
              checked |-> ~c.break_token_rule, calcs |-> calcs,
              fallback |-> FALSE]

(***************************************************************************)
(* es_search (src/src/tools/search.ts).                                    *)
(*   c: from (queryBody.from), break_token_rule                            *)
(*   d: fails, hits (hits returned), hitLen (text of one hit), aggs        *)
(*      (aggregations present), aggLen (their pretty JSON)                 *)
(***************************************************************************)
\* `Total results: ${total}, showing ${hits} from position ${from}`
SE_MetadataLen(c, d) == 40 + DecLen(d.hits) + DecLen(d.hits) + DecLen(c.from)

RECURSIVE Repeat(_, _)
Repeat(x, n) == IF n = 0 THEN <<>> ELSE <<x>> \o Repeat(x, n - 1)

\* content: metadata, aggregations if any, one fragment per hit
SE_Fragments(c, d) ==
    <<SE_MetadataLen(c, d)>>
    \o (IF d.aggs THEN <<21 + d.aggLen>> ELSE <<>>)
    \o Repeat(d.hitLen, d.hits)

\* the handler of es_search
SearchHandler(c, d, maxTokens) ==
    IF d.fails
    THEN CaughtError(ErrMsgLen)
    ELSE
    LET frags == SE_Fragments(c, d)
        tokenCheck == checkTokenLimit(frags, maxTokens, c.break_token_rule)
    IN  IF ~tokenCheck.allowed
        THEN [kind |-> "limitError", level |-> "", bodyLen |-> 0,
              len |-> tokenCheck.errorLen, isError |-> TRUE,
              checked |-> TRUE, calcs |-> tokenCheck.calcs,
              fallback |-> FALSE]
        ELSE [kind |-> "hits", level |-> "", bodyLen |-> SumSeq(frags),
              len |-> SumSeq(frags), isError |-> FALSE,
              checked |-> ~c.break_token_rule, calcs |-> tokenCheck.calcs,
              fallback |-> FALSE]

(***************************************************************************)
(* execute_es_api (src/src/tools/execute-api.ts, registerExecuteApi).      *)
(*   c: method, break_token_rule                                           *)
(*   d: fails, metaBody (the error carries meta.body), respLen (pretty     *)
(*      JSON of the response)                                              *)
(***************************************************************************)
\* `Successfully executed ${method} request to ${path}`
EX_SuccessLen(c) == 34 + Len(c.method) + NameLen

\* `Error: ${message}` and, with meta.body, `\nError details: ${json}`
EX_CaughtError(d) ==
    CaughtError(ErrMsgLen + (IF d.metaBody THEN 16 + ErrMsgLen ELSE 0))

\* the handler of execute_es_api
ExecuteApiHandler(c, d, maxTokens) ==
    IF d.fails
    THEN EX_CaughtError(d)
    ELSE
    LET frags == <<EX_SuccessLen(c), d.respLen>>
        tokenCheck == checkTokenLimit(frags, maxTokens, c.break_token_rule)
    IN  IF ~tokenCheck.allowed
        THEN [kind |-> "limitError", level |-> "", bodyLen |-> 0,
              len |-> tokenCheck.errorLen, isError |-> TRUE,
              checked |-> TRUE, calcs |-> tokenCheck.calcs,
              fallback |-> FALSE]
        ELSE [kind |-> "api", level |-> "", bodyLen |-> SumSeq(frags),
              len |-> SumSeq(frags), isError |-> FALSE,
              checked |-> ~c.break_token_rule, calcs |-> tokenCheck.calcs,
              fallback |-> FALSE]

(***************************************************************************)
(* get_shards (src/src/tools/get-shards.ts).                               *)
(*   c: index (given or not), analysis_mode, show_recommendations,         *)
(*      break_token_rule                                                   *)
(*   d: fails, rawLen (pretty JSON of the cat.shards response),            *)
(*      summaryLen (formatShardSummary and the top problem indices),       *)
(*      problemsLen (formatShardProblems), recLen                          *)
(*      (generateShardRecommendations)                                     *)
(***************************************************************************)
\* the analysis text of the chosen mode
GS_AnalysisLen(c, d) ==
    CASE c.analysis_mode = "full" ->
             33 + (IF c.index THEN NameLen ELSE 0) + d.rawLen
      [] c.analysis_mode = "problems" ->
             d.problemsLen + (IF c.show_recommendations THEN d.recLen ELSE 0)
      [] OTHER ->
             d.summaryLen + (IF c.show_recommendations THEN d.recLen ELSE 0)

\* the "Token Usage Statistics" footer; the Saved line only with savings
GS_StatsFooterLen(mode, originalTokens, optimizedTokens, maxTokens) ==
    190 + LevelLen(mode) + LocaleLen(originalTokens)
        + LocaleLen(optimizedTokens)
        + (IF originalTokens > optimizedTokens
           THEN 50 + LocaleLen(originalTokens - optimizedTokens)
                   + PercentLen(originalTokens - optimizedTokens,
                                originalTokens)
           ELSE 0)
        + 36 + LocaleLen(maxTokens)

\* "Analysis result exceeds token limit (a > b). Suggestions: ..."
GS_ExceedsLen(c, optimizedTokens, maxTokens) ==
    256 + LocaleLen(optimizedTokens) + LocaleLen(maxTokens)
        + LevelLen(c.analysis_mode)
        + (IF c.index THEN 6 + NameLen ELSE 16)

GetShardsHandlerFullUnchecked(c, d, maxTokens) ==
    IF d.fails
    THEN CaughtError(ErrMsgLen)
    ELSE
    LET bodyLen == GS_AnalysisLen(c, d)
        originalTokens == calculateTokens(d.rawLen)
        optimizedTokens == calculateTokens(bodyLen)
    IN  IF optimizedTokens > maxTokens /\ ~c.break_token_rule
           /\ c.analysis_mode # "full"
        THEN [kind |-> "limitError", level |-> c.analysis_mode,
              bodyLen |-> 0,
              len |-> GS_ExceedsLen(c, optimizedTokens, maxTokens),
              isError |-> TRUE, checked |-> TRUE, calcs |-> 2,
              fallback |-> FALSE]
        ELSE [kind |-> IF c.analysis_mode = "full" THEN "raw" ELSE "analysis",
              level |-> c.analysis_mode, bodyLen |-> bodyLen,
              len |-> bodyLen + GS_StatsFooterLen(c.analysis_mode,
                          originalTokens, optimizedTokens, maxTokens),
              isError |-> FALSE, checked |-> ~c.break_token_rule,
              calcs |-> 2, fallback |-> FALSE]

\* the handler of get_shards
GetShardsHandler(c, d, maxTokens) ==
    IF d.fails
    THEN CaughtError(ErrMsgLen)
    ELSE
    LET bodyLen == GS_AnalysisLen(c, d)
        originalTokens == calculateTokens(d.rawLen)
        optimizedTokens == calculateTokens(bodyLen)
    IN  IF optimizedTokens > maxTokens /\ ~c.break_token_rule
        THEN [kind |-> "limitError", level |-> c.analysis_mode,
              bodyLen |-> 0,
              len |-> GS_ExceedsLen(c, optimizedTokens, maxTokens),
              isError |-> TRUE, checked |-> TRUE, calcs |-> 2,
              fallback |-> FALSE]
        ELSE [kind |-> IF c.analysis_mode = "full" THEN "raw" ELSE "analysis",
              level |-> c.analysis_mode, bodyLen |-> bodyLen,
              len |-> bodyLen + GS_StatsFooterLen(c.analysis_mode,
                          originalTokens, optimizedTokens, maxTokens),
              isError |-> FALSE, checked |-> ~c.break_token_rule,
              calcs |-> 2, fallback |-> FALSE]

(***************************************************************************)
(* list_data_streams (src/unnamed/part_005).                               *)
(*   c: pattern, health_filter, ilm_policy (given or not), summary_level,  *)
(*      max_display, compare_mode, break_token_rule                        *)
(*   d: fails, found (streams the cluster returned), kept (the filters     *)
(*      keep them), rawLen (pretty JSON of the response), comparisonLen    *)
(*      (formatComparison of compareDataStreams)                           *)
(***************************************************************************)
DS_AUTO_SUMMARY_THRESHOLD == 50

\* streams left after the health and ILM filters
DS_Count(d) == IF d.kept THEN d.found ELSE 0

\* "No data streams found[ matching pattern: ..]"
DS_NoStreamsLen(c) == 21 + (IF c.pattern THEN 19 + NameLen ELSE 0)

\* "No data streams found matching the specified filters"
DS_NoMatchLen == 52

\* "Showing top x of n data streams"
DS_ShowingTopLen(n, displayCount) ==
    IF n > displayCount THEN 31 + DecLen(displayCount) + DecLen(n) ELSE 0

\* the itemized list: header, formatMinimal per displayed stream, remainder
DS_MinimalListLen(n, displayCount) ==
    94 + DecLen(n) + displayCount * MinimalItemLen
       + (IF n > displayCount
          THEN 27 + DecLen(displayCount) + DecLen(n) ELSE 0)

\* the itemized list of compact mode: formatCompact + "\n" per stream
DS_CompactListLen(n, displayCount) ==
    94 + DecLen(n) + displayCount * (CompactItemLen + 1)
       + (IF n > displayCount
          THEN 27 + DecLen(displayCount) + DecLen(n) ELSE 0)

\* the overview of at most 20 streams used when the comparison is too large
DS_OverviewLen(n, displayCount) ==
    LET minimalDisplayCount == Min(20, displayCount)
    IN  103 + DecLen(n) + minimalDisplayCount * MinimalItemLen
            + (IF n > minimalDisplayCount
               THEN 74 + DecLen(n - minimalDisplayCount) ELSE 0)

\* raw mode: header and pretty JSON of {data_streams, indices_stats}
DS_RawLen(d) == 31 + d.rawLen + PrettyListLen(d.found, RawIndexRecordLen)

\* shouldUseSummary = compare_mode || (isLargeSet && summary_level === "auto")
DS_ShouldUseSummary(c, n) ==
    c.compare_mode
    \/ (n > DS_AUTO_SUMMARY_THRESHOLD /\ c.summary_level = "auto")

\* auto mode: [level, bodyLen, msgLen (auto-switch message), calcs]
DS_AutoLevel(c, d, n, displayCount, maxTokens) ==
    LET comparisonTokens == calculateTokens(d.comparisonLen)
        minimalLen == DS_MinimalListLen(n, displayCount)
        minimalTokens == calculateTokens(minimalLen)
    IN  IF DS_ShouldUseSummary(c, n)
        THEN IF comparisonTokens <= maxTokens \/ c.break_token_rule
             THEN [level |-> "comparison", aggregate |-> TRUE,
                   bodyLen |-> d.comparisonLen
                               + DS_ShowingTopLen(n, displayCount),
                   msgLen |-> 0, calcs |-> 1]
             ELSE [level |-> "minimal", aggregate |-> FALSE,
                   bodyLen |-> DS_OverviewLen(n, displayCount),
                   msgLen |-> 106 + DecLen(n) + LocaleLen(comparisonTokens),
                   calcs |-> 1]
        ELSE IF minimalTokens <= maxTokens \/ c.break_token_rule
             THEN [level |-> "minimal", aggregate |-> FALSE,
                   bodyLen |-> minimalLen, msgLen |-> 0, calcs |-> 1]
             ELSE IF comparisonTokens <= maxTokens \/ c.break_token_rule
                  THEN [level |-> "comparison", aggregate |-> TRUE,
                        bodyLen |-> d.comparisonLen,
                        msgLen |-> 72 + LocaleLen(minimalTokens),
                        calcs |-> 2]
                  ELSE [level |-> "comparison", aggregate |-> TRUE,
                        bodyLen |-> d.comparisonLen, msgLen |-> 57,
                        calcs |-> 2]

\* the explicit modes: full, comparison (compare_mode), compact, minimal
DS_ExplicitLevel(c, d, n, displayCount) ==
    IF c.summary_level = "full"
    THEN [level |-> "full", aggregate |-> FALSE, bodyLen |-> DS_RawLen(d),
          msgLen |-> 0, calcs |-> 0]
    ELSE IF c.compare_mode
    THEN [level |-> "comparison", aggregate |-> TRUE,
          bodyLen |-> d.comparisonLen + DS_ShowingTopLen(n, displayCount),
          msgLen |-> 0, calcs |-> 0]
    ELSE IF c.summary_level = "compact"
    THEN [level |-> "compact", aggregate |-> FALSE,
          bodyLen |-> DS_CompactListLen(n, displayCount),
          msgLen |-> 0, calcs |-> 0]
    ELSE [level |-> "minimal", aggregate |-> FALSE,
          bodyLen |-> DS_MinimalListLen(n, displayCount),
          msgLen |-> 0, calcs |-> 0]

\* the token statistics footer
DS_StatsFooterLen(c, level, originalTokens, optimizedTokens, maxTokens) ==
    237 + LevelLen(level) + (IF c.summary_level = "auto" THEN 16 ELSE 0)
        + LocaleLen(originalTokens) + LocaleLen(optimizedTokens)
        + LocaleLen(originalTokens - optimizedTokens)
        + PercentLen(originalTokens - optimizedTokens, originalTokens)
        + LocaleLen(maxTokens)

\* "Active Filters: ..."
DS_FilterInfoLen(c) ==
    IF c.health_filter \/ c.ilm_policy
    THEN 17 + (IF c.health_filter THEN 11 + NameLen ELSE 0)
            + (IF c.ilm_policy THEN 15 + NameLen ELSE 0)
    ELSE 0

\* the suggestion returned when the budget is exceeded
DS_SuggestionLen(c, n, errorLen) ==
    errorLen + 82 + LevelLen(c.summary_level) + DecLen(n)
             + DecLen(c.max_display) + 209

\* the handler of list_data_streams
ListDataStreamsHandler(c, d, maxTokens) ==
    IF d.fails
    THEN CaughtError(ErrMsgLen)
    ELSE IF d.found = 0
    THEN [kind |-> "noResults", level |-> "", bodyLen |-> 0,
          len |-> DS_NoStreamsLen(c), isError |-> FALSE, checked |-> FALSE,
          calcs |-> 0, fallback |-> FALSE]
    ELSE IF DS_Count(d) = 0
    THEN [kind |-> "noResults", level |-> "", bodyLen |-> 0,
          len |-> DS_NoMatchLen, isError |-> FALSE, checked |-> FALSE,
          calcs |-> 0, fallback |-> FALSE]
    ELSE
    LET n == DS_Count(d)
        displayCount ==
            Min(n, IF c.max_display = 0 THEN 50 ELSE c.max_display)
        measured == c.summary_level # "full"
        originalTokens == IF measured THEN calculateTokens(d.rawLen) ELSE 0
        sel == IF c.summary_level = "auto"
               THEN DS_AutoLevel(c, d, n, displayCount, maxTokens)
               ELSE DS_ExplicitLevel(c, d, n, displayCount)
        shownLen == sel.msgLen + sel.bodyLen
        withFooter == sel.level # "full" /\ originalTokens > 0
        textLen ==
            shownLen
            + (IF withFooter
               THEN DS_StatsFooterLen(c, sel.level, originalTokens,
                        calculateTokens(shownLen), maxTokens)
               ELSE 0)
            + DS_FilterInfoLen(c)
        tokenCheck == checkTokenLimit(<<textLen>>, maxTokens,
                                      c.break_token_rule)
        calcs == (IF measured THEN 1 ELSE 0) + sel.calcs
                 + (IF withFooter THEN 1 ELSE 0) + tokenCheck.calcs
    IN  IF ~tokenCheck.allowed
        THEN [kind |-> "limitError", level |-> sel.level, bodyLen |-> 0,
              len |-> DS_SuggestionLen(c, n, tokenCheck.errorLen),
              isError |-> TRUE, checked |-> TRUE, calcs |-> calcs,
              fallback |-> FALSE]
        ELSE [kind |-> IF sel.level = "full" THEN "raw"
                       ELSE IF sel.aggregate THEN "comparison"
                       ELSE "streams",
              level |-> sel.level, bodyLen |-> sel.bodyLen,
              len |-> textLen, isError |-> FALSE,
              checked |-> ~c.break_token_rule, calcs |-> calcs,
              fallback |-> FALSE]

(***************************************************************************)
(* Startup: createElasticsearchMcpServer (src/unnamed/part_001), the       *)
(* capability manager (src/src/version-detector.ts) and the client         *)
(* factory (src/unnamed/part_001).                                         *)
(***************************************************************************)
\* a credential: not given, the empty string, a non-empty string
Creds == {"absent", "empty", "set"}

Truthy(cred) == cred = "set"

Configs == [urlOk : BOOLEAN, apiKey : Creds, username : Creds,
            password : Creds]

ConfigRefineUsernameOnly(cfg) ==
    IF Truthy(cfg.username) THEN Truthy(cfg.password) ELSE TRUE

\* the refinement of ConfigSchema
ConfigRefine(cfg) ==
    IF Truthy(cfg.username) THEN Truthy(cfg.password)
    ELSE IF Truthy(cfg.password) THEN Truthy(cfg.username)
    ELSE TRUE

\* ConfigSchema.parse succeeds
ConfigValid(cfg) == cfg.urlOk /\ ConfigRefine(cfg)

Versions == [major : MinMajor .. MaxMajor, minor : 0 .. MaxMinor,
             patch : {0}]

NoVersion == [major |-> 0, minor |-> 0, patch |-> 0]

meetsVersionStrictMinor(v, minMajor, minMinor) ==
    IF v.major > minMajor THEN TRUE
    ELSE IF v.major < minMajor THEN FALSE
    ELSE v.minor > minMinor

\* CapabilityManager.meetsVersion
meetsVersion(v, minMajor, minMinor) ==
    IF v.major > minMajor THEN TRUE
    ELSE IF v.major < minMajor THEN FALSE
    ELSE v.minor >= minMinor

\* CapabilityManager.supportsDataStreams
supportsDataStreams(v) == meetsVersion(v, 7, 9)

supportsSearchableSnapshots(v) == meetsVersion(v, 7, 10)

supportsRuntimeFields(v) == meetsVersion(v, 7, 11)

supportsPointInTime(v) == meetsVersion(v, 7, 10)

supportsSQL(v) == meetsVersion(v, 6, 3)

hasMappingTypes(v) == v.major < 7

\* an ILM threshold copied from the SQL API's
supportsILMSinceSQL(v) == meetsVersion(v, 6, 3)

supportsILM(v) == meetsVersion(v, 6, 6)

\* the majors that have an adapter class (ES5Adapter .. ES9Adapter)
AdapterMajors == 5..9

NoAdapter == 0

\* getAdapter: the adapter of the version's major, or null
getAdapter(v) ==
    IF v.major \in AdapterMajors THEN v.major ELSE NoAdapter

\* the adapter normalizeCatIndices and normalizeMappings hand the response
\* to; with none the response is returned as it is
normalizeDispatch(v) ==
    IF v.major \in AdapterMajors THEN v.major ELSE NoAdapter

BasicTools ==
    {"list_indices", "get_mappings", "es_search", "execute_es_api",
     "get_shards"}

\* CapabilityManager.getSupportedTools
getSupportedTools(v) ==
    BasicTools
    \cup (IF supportsDataStreams(v) THEN {"list_data_streams"} ELSE {})

\* majors a client package @elastic/elasticsearch-v<major> exists for
ClientMajors == 5 .. 9

NoClient == [ok |-> FALSE, major |-> 0, warnings |-> 0]

\* createVersionedClient: installed is the set of majors whose client
\* package can be imported; ok = FALSE is the thrown error
createVersionedClient(v, installed) ==
    LET load(m, w) == IF m \in installed
                      THEN [ok |-> TRUE, major |-> m, warnings |-> w]
                      ELSE [ok |-> FALSE, major |-> 0, warnings |-> w]
    IN  CASE v.major = 9 ->
                 IF 9 \in installed THEN load(9, 0) ELSE load(8, 1)
          [] v.major \in 5 .. 8 -> load(v.major, 0)
          [] OTHER ->
                 IF 9 \in installed THEN load(9, 2) ELSE load(8, 3)

verifyConnectionNoCatch(hasPing, pingOk, infoOk) ==
    IF hasPing
    THEN IF pingOk THEN "true" ELSE "throws"
    ELSE IF infoOk THEN "true" ELSE "throws"

\* verifyConnection: ping when the client has it, else info; every error
\* is caught
verifyConnection(hasPing, pingOk, infoOk) ==
    IF hasPing
    THEN IF pingOk THEN "true" ELSE "false"
    ELSE IF infoOk THEN "true" ELSE "false"

\* step 7 of createElasticsearchMcpServer: the tools registered
RegisterTools(v) ==
    BasicTools
    \cup (IF supportsDataStreams(v) THEN {"list_data_streams"} ELSE {})

NoCall == [tool |-> "none"]

NoData == [fails |-> FALSE]

\* no detectESVersion call is in progress
NoProbe == [state |-> "idle"]

StartupInit ==
    /\ pc = "start"
    /\ probes = 0
    /\ clientsBuilt = 0
    /\ probe = NoProbe
    /\ transports = {}
    /\ config \in Configs
    /\ versionInfo = NoVersion
    /\ esClient = NoClient
    /\ steps = <<>>
    /\ registeredTools = {}
    /\ maxTokenCall \in Budgets
    /\ call = NoCall
    /\ data = NoData
    /\ out = NoOut

toolVars == <<call, data, out>>

\* ConfigSchema.parse(config)
Validate ==
    /\ pc = "start"
    /\ IF ConfigValid(config)
       THEN pc' = "detect" /\ steps' = Append(steps, "validate")
       ELSE pc' = "failed" /\ steps' = steps
    /\ UNCHANGED <<config, versionInfo, esClient, registeredTools,
                   maxTokenCall, toolVars, probes, clientsBuilt, netVars>>

\* await detectESVersion(url, ...) resolves
DetectResolve ==
    /\ pc = "detect"
    /\ \E v \in Versions : versionInfo' = v
    /\ pc' = "client"
    /\ steps' = Append(steps, "detect")
    /\ probes' = probes + 1
    /\ UNCHANGED <<config, esClient, registeredTools, maxTokenCall, toolVars,
                   clientsBuilt, netVars>>

\* await detectESVersion(url, ...) rejects
DetectReject ==
    /\ pc = "detect"
    /\ pc' = "failed"
    /\ probes' = probes + 1
    /\ UNCHANGED <<config, versionInfo, esClient, steps, registeredTools,
                   maxTokenCall, toolVars, clientsBuilt, netVars>>

\* await createVersionedClient(versionInfo, clientOptions)
CreateClient ==
    /\ pc = "client"
    /\ \E installed \in SUBSET ClientMajors :
          LET r == createVersionedClient(versionInfo, installed)
          IN  /\ esClient' = r
              /\ clientsBuilt' = IF r.ok THEN clientsBuilt + 1
                                 ELSE clientsBuilt
              /\ IF r.ok
                 THEN pc' = "verify" /\ steps' = Append(steps, "client")
                 ELSE pc' = "failed" /\ steps' = steps
    /\ UNCHANGED <<config, versionInfo, registeredTools, maxTokenCall,
                   toolVars, probes, netVars>>

\* await verifyConnection(esClient); a false result throws
Verify ==
    /\ pc = "verify"
    /\ \E hasPing \in BOOLEAN, pingOk \in BOOLEAN, infoOk \in BOOLEAN :
          LET connected == verifyConnection(hasPing, pingOk, infoOk)
          IN  IF connected = "true"
              THEN pc' = "register" /\ steps' = Append(steps, "verify")
              ELSE IF connected = "false"
              THEN pc' = "failed" /\ steps' = steps
              ELSE pc' = "rejected" /\ steps' = steps
    /\ UNCHANGED <<config, versionInfo, esClient, registeredTools,
                   maxTokenCall, toolVars, probes, clientsBuilt, netVars>>

\* steps 6 and 7: new McpServer, the register calls
Register ==
    /\ pc = "register"
    /\ registeredTools' = RegisterTools(versionInfo)
    /\ pc' = "done"
    /\ UNCHANGED <<config, versionInfo, esClient, steps, maxTokenCall,
                   toolVars, probes, clientsBuilt, netVars>>

StartupNext ==
    \/ Validate
    \/ DetectResolve
    \/ DetectReject
    \/ CreateClient
    \/ Verify
    \/ Register

SpecStartup == StartupInit /\ [][StartupNext]_vars

(***************************************************************************)
(* The running server: one action per tool handler.                       *)
(***************************************************************************)
RunningVersions ==
    {[major |-> 7, minor |-> 8, patch |-> 0],
     [major |-> 7, minor |-> 9, patch |-> 0]}

Init ==
    /\ pc = "done"
    /\ probes = 1
    /\ clientsBuilt = 1
    /\ probe = NoProbe
    /\ transports = {}
    /\ config = [urlOk |-> TRUE, apiKey |-> "set", username |-> "absent",
                 password |-> "absent"]
    /\ versionInfo \in RunningVersions
    /\ esClient = createVersionedClient(versionInfo, ClientMajors)
    /\ steps = <<"validate", "detect", "client", "verify">>
    /\ registeredTools = RegisterTools(versionInfo)
    /\ maxTokenCall \in Budgets
    /\ call = NoCall
    /\ data = NoData
    /\ out = NoOut

ListIndicesCalls ==
    [tool : {"list_indices"}, pattern : BOOLEAN, health_filter : BOOLEAN,
     summary_mode : BOOLEAN,
     summary_level : {"auto", "full", "compact", "minimal"},
     max_display : {0, 50, 100}, break_token_rule : BOOLEAN]

ListIndicesData ==
    [fails : {FALSE},
     n : {0, AUTO_SUMMARY_THRESHOLD, AUTO_SUMMARY_THRESHOLD + 1},
     fullLen : RenderLens, compactLen : RenderLens,
     minimalLen : ShortRenderLens, suggLen : {0, SuggestionsLen}]
    \cup
    [fails : {TRUE}, n : {0}, fullLen : {0}, compactLen : {0},
     minimalLen : {0}, suggLen : {0}]

ListIndices ==
    /\ pc = "done"
    /\ call = NoCall
    /\ "list_indices" \in registeredTools
    /\ \E c \in ListIndicesCalls, d \in ListIndicesData :
          /\ call' = c
          /\ data' = d
          /\ out' = ListIndicesHandler(c, d, maxTokenCall)
    /\ UNCHANGED startupVars

GetMappingsCalls ==
    [tool : {"get_mappings"}, summary_level : {"minimal", "compact", "full"},
     field_pattern : BOOLEAN, field_type : {FALSE},
     field_capability : {FALSE}, compare_mode : BOOLEAN,
     break_token_rule : BOOLEAN]
    \cup
    [tool : {"get_mappings"}, summary_level : {"minimal", "compact", "full"},
     field_pattern : {TRUE}, field_type : {TRUE},
     field_capability : {TRUE}, compare_mode : BOOLEAN,
     break_token_rule : BOOLEAN]

GetMappingsData ==
    [fails : {FALSE}, nIdx : 0 .. MaxIdx, rawLen : RenderLens,
     minimalLen : RenderLens, compactLen : RenderLens,
     comparisonLen : ShortRenderLens]
    \cup
    [fails : {TRUE}, nIdx : {0}, rawLen : {0}, minimalLen : {0},
     compactLen : {0}, comparisonLen : {0}]

GetMappings ==
    /\ pc = "done"
    /\ call = NoCall
    /\ "get_mappings" \in registeredTools
    /\ \E c \in GetMappingsCalls, d \in GetMappingsData :
          /\ call' = c
          /\ data' = d
          /\ out' = GetMappingsHandler(c, d, maxTokenCall)
    /\ UNCHANGED startupVars

SearchCalls ==
    [tool : {"es_search"}, from : {0, 10}, break_token_rule : BOOLEAN]

SearchData ==
    [fails : {FALSE}, hits : 0 .. MaxHits, hitLen : RenderLens,
     aggs : BOOLEAN, aggLen : RenderLens]
    \cup
    [fails : {TRUE}, hits : {0}, hitLen : {0}, aggs : {FALSE}, aggLen : {0}]

Search ==
    /\ pc = "done"
    /\ call = NoCall
    /\ "es_search" \in registeredTools
    /\ \E c \in SearchCalls, d \in SearchData :
          /\ call' = c
          /\ data' = d
          /\ out' = SearchHandler(c, d, maxTokenCall)
    /\ UNCHANGED startupVars

ExecuteApiCalls ==
    [tool : {"execute_es_api"},
     method : {"GET", "POST", "PUT", "DELETE", "HEAD"},
     break_token_rule : BOOLEAN]

ExecuteApiData ==
    [fails : {FALSE}, metaBody : {FALSE}, respLen : RenderLens]
    \cup
    [fails : {TRUE}, metaBody : BOOLEAN, respLen : {0}]

ExecuteApi ==
    /\ pc = "done"
    /\ call = NoCall
    /\ "execute_es_api" \in registeredTools
    /\ \E c \in ExecuteApiCalls, d \in ExecuteApiData :
          /\ call' = c
          /\ data' = d
          /\ out' = ExecuteApiHandler(c, d, maxTokenCall)
    /\ UNCHANGED startupVars

GetShardsCalls ==
    [tool : {"get_shards"}, index : BOOLEAN,
     analysis_mode : {"summary", "problems", "full"},
     show_recommendations : BOOLEAN, break_token_rule : BOOLEAN]

GetShardsData ==
    [fails : {FALSE}, rawLen : RenderLens, summaryLen : ShortRenderLens,
     problemsLen : RenderLens, recLen : {0, SuggestionsLen}]
    \cup
    [fails : {TRUE}, rawLen : {0}, summaryLen : {0}, problemsLen : {0},
     recLen : {0}]

GetShards ==
    /\ pc = "done"
    /\ call = NoCall
    /\ "get_shards" \in registeredTools
    /\ \E c \in GetShardsCalls, d \in GetShardsData :
          /\ call' = c
          /\ data' = d
          /\ out' = GetShardsHandler(c, d, maxTokenCall)
    /\ UNCHANGED startupVars

ListDataStreamsCalls ==
    [tool : {"list_data_streams"}, pattern : BOOLEAN,
     health_filter : BOOLEAN, ilm_policy : {FALSE},
     summary_level : {"auto", "minimal", "compact", "full"},
     max_display : {10, 50}, compare_mode : BOOLEAN,
     break_token_rule : BOOLEAN]
    \cup
    [tool : {"list_data_streams"}, pattern : BOOLEAN,
     health_filter : {TRUE}, ilm_policy : {TRUE},
     summary_level : {"auto", "minimal", "compact", "full"},
     max_display : {10, 50}, compare_mode : BOOLEAN,
     break_token_rule : BOOLEAN]

ListDataStreamsData ==
    [fails : {FALSE},
     found : {0, 1, DS_AUTO_SUMMARY_THRESHOLD, DS_AUTO_SUMMARY_THRESHOLD + 1},
     kept : BOOLEAN, rawLen : RenderLens, comparisonLen : ShortRenderLens]
    \cup
    [fails : {TRUE}, found : {0}, kept : {TRUE}, rawLen : {0},
     comparisonLen : {0}]

ListDataStreams ==
    /\ pc = "done"
    /\ call = NoCall
    /\ "list_data_streams" \in registeredTools
    /\ \E c \in ListDataStreamsCalls, d \in ListDataStreamsData :
          \* the filters can only drop streams when a filter is given
          /\ (~d.kept => (c.health_filter \/ c.ilm_policy) /\ d.found > 0)
          /\ call' = c
          /\ data' = d
          /\ out' = ListDataStreamsHandler(c, d, maxTokenCall)
    /\ UNCHANGED startupVars

\* the transport writes the handler's result back; the server is ready
\* for the next request
SendResponse ==
    /\ pc = "done"
    /\ call # NoCall
    /\ call' = NoCall
    /\ data' = NoData
    /\ out' = NoOut
    /\ UNCHANGED startupVars

Next ==
    \/ ListIndices
    \/ GetMappings
    \/ Search
    \/ ExecuteApi
    \/ GetShards
    \/ ListDataStreams
    \/ SendResponse

Spec == Init /\ [][Next]_vars

(***************************************************************************)
(* HTTP transport mode: main() of src/unnamed/part_000.  The process       *)
(* listens; every POST /mcp that names no known session makes a transport  *)
(* and runs createElasticsearchMcpServer(config) for it.                   *)
(***************************************************************************)
SessionIds == 1 .. MaxSessions

\* the configurations main() builds: process.env.X || ""
EnvConfigs == {cfg \in Configs : cfg.apiKey # "absent"
                                 /\ cfg.username # "absent"
                                 /\ cfg.password # "absent"}

HttpInit ==
    /\ pc = "listening"
    /\ config \in {cfg \in EnvConfigs : ~Truthy(cfg.username)
                                         /\ ~Truthy(cfg.password)}
    /\ versionInfo = NoVersion
    /\ esClient = NoClient
    /\ steps = <<>>
    /\ registeredTools = {}
    /\ maxTokenCall = DefaultBudget
    /\ call = NoCall
    /\ data = NoData
    /\ out = NoOut
    /\ probes = 0
    /\ clientsBuilt = 0
    /\ probe = NoProbe
    /\ transports = {}

\* the transports a process may hold at a time: one per session and the
\* one of the request being handled
TransportIds == 1..(MaxSessions + 1)

\* the keys of the Map transports, a set of [id, transport] entries
RegisteredIds(map) == {p.id : p \in map}

\* transports.get(sessionId)
TransportOf(map, sid) == (CHOOSE p \in map : p.id = sid).transport

\* onsessioninitialized: transports.set(newSessionId, transport)
onsessioninitialized(map, sid, transport) ==
    {p \in map : p.id # sid} \cup {[id |-> sid, transport |-> transport]}

\* a callback that leaves the closed session in the Map
onsessionclosedKeep(map, sid) ==
    map

\* onsessionclosed: transports.delete(closedSessionId)
onsessionclosed(map, sid) ==
    {p \in map : p.id # sid}

\* createElasticsearchMcpServer(config) run to its end: detected is the
\* version detectESVersion resolves with (NoVersion: it rejects),
\* installed the importable client packages, connected the result of
\* verifyConnection.  [ok, version, client, steps, probes, clients]
RunStartup(cfg, detected, installed, connected) ==
    LET client == createVersionedClient(detected, installed)
    IN  IF ~ConfigValid(cfg)
        THEN [ok |-> FALSE, version |-> NoVersion, client |-> NoClient,
              steps |-> <<>>, probes |-> 0, clients |-> 0]
        ELSE IF detected = NoVersion
        THEN [ok |-> FALSE, version |-> NoVersion, client |-> NoClient,
              steps |-> <<"validate">>, probes |-> 1, clients |-> 0]
        ELSE IF ~client.ok
        THEN [ok |-> FALSE, version |-> detected, client |-> client,
              steps |-> <<"validate", "detect">>, probes |-> 1,
              clients |-> 0]
        ELSE IF connected # "true"
        THEN [ok |-> FALSE, version |-> detected, client |-> client,
              steps |-> <<"validate", "detect", "client">>, probes |-> 1,
              clients |-> 1]
        ELSE [ok |-> TRUE, version |-> detected, client |-> client,
              steps |-> <<"validate", "detect", "client", "verify">>,
              probes |-> 1, clients |-> 1]

\* app.post('/mcp') with no session id or an unknown one: a new transport
\* and a new server; an initialize request stores the session
PostMcpNew ==
    /\ pc = "listening"
    /\ probes < MaxProbes
    /\ \E sid \in (SessionIds \ RegisteredIds(transports)) \cup {0},
          isInitialize \in BOOLEAN,
          detected \in RunningVersions \cup {NoVersion},
          installed \in {ClientMajors, {}},
          pingOk \in BOOLEAN :
          LET r == RunStartup(config, detected, installed,
                              verifyConnection(TRUE, pingOk, FALSE))
              fresh == SessionIds \ RegisteredIds(transports)
              transport == CHOOSE t \in TransportIds :
                              \A p \in transports : p.transport # t
              stored == r.ok /\ isInitialize /\ fresh # {}
          IN  /\ probes' = probes + r.probes
              /\ clientsBuilt' = clientsBuilt + r.clients
              /\ steps' = r.steps
              /\ versionInfo' = IF r.version # NoVersion THEN r.version
                                ELSE versionInfo
              /\ esClient' = IF r.client # NoClient THEN r.client
                             ELSE esClient
              /\ registeredTools' = IF r.ok THEN RegisterTools(r.version)
                                    ELSE registeredTools
              /\ transports' =
                    IF stored
                    THEN onsessioninitialized(
                             transports,
                             CHOOSE n \in fresh : \A m \in fresh : n <= m,
                             transport)
                    ELSE transports
              /\ call' = [tool |-> "http", route |-> "POST /mcp",
                          session |-> sid, created |-> TRUE,
                          handledBy |-> IF r.ok THEN transport ELSE 0,
                          status |-> IF r.ok THEN 200 ELSE 500]
    /\ UNCHANGED <<pc, config, maxTokenCall, data, out, probe>>

\* what the cluster answers to the searches sent over a session
HttpSearchData ==
    {d \in SearchData : d.fails \/ (d.hits = 1 /\ ~d.aggs
                                     /\ d.aggLen = 4 * SmallBudget)}

\* app.post('/mcp') with the id of a stored session: the transport hands
\* the request to its server, here a call of es_search
PostMcpKnown ==
    /\ pc = "listening"
    /\ \E sid \in RegisteredIds(transports), c \in SearchCalls,
          d \in HttpSearchData :
          /\ call' = [tool |-> "http", route |-> "POST /mcp",
                      session |-> sid, created |-> FALSE,
                      handledBy |-> TransportOf(transports, sid),
                      status |-> 200]
          /\ data' = d
          /\ out' = SearchHandler(c, d, maxTokenCall)
    /\ UNCHANGED startupVars

\* app.get('/mcp'): 400 for a missing (0) or unknown session id, else the
\* session's transport opens the stream
GetMcp ==
    /\ pc = "listening"
    /\ \E sid \in SessionIds \cup {0} :
          call' = IF sid = 0 \/ sid \notin RegisteredIds(transports)
                  THEN [tool |-> "http", route |-> "GET /mcp",
                        session |-> sid, created |-> FALSE,
                        handledBy |-> 0, status |-> 400]
                  ELSE [tool |-> "http", route |-> "GET /mcp",
                        session |-> sid, created |-> FALSE,
                        handledBy |-> TransportOf(transports, sid),
                        status |-> 200]
    /\ UNCHANGED <<startupVars, data, out>>

\* a transport closes its session and calls onsessionclosed
SessionClosed ==
    /\ pc = "listening"
    /\ \E p \in transports :
          /\ transports' = onsessionclosed(transports, p.id)
          /\ call' = [tool |-> "http", route |-> "onsessionclosed",
                      session |-> p.id, created |-> FALSE,
                      handledBy |-> p.transport, status |-> 200]
    /\ UNCHANGED <<pc, config, versionInfo, esClient, steps,
                   registeredTools, maxTokenCall, probes, clientsBuilt,
                   probe, data, out>>

HttpNext ==
    \/ PostMcpNew
    \/ PostMcpKnown
    \/ GetMcp
    \/ SessionClosed

SpecHttp == HttpInit /\ [][HttpNext]_vars

(***************************************************************************)
(* detectESVersion (src/src/version-detector.ts): the promise around the   *)
(* GET / request.                                                          *)
(*   probe.state      idle / pending / resolved / rejected                 *)
(*   probe.calls      calls of resolve or reject made by the handlers      *)
(*   probe.settled    calls that changed the promise's state               *)
(*   probe.delivered  the request events the handlers have seen            *)
(*   probe.destroyed  req.destroy() was called                             *)
(*   probe.errQueued  an 'error' event raised by the destroy is pending    *)
(*   probe.resp       the response whose 'end' was delivered               *)
(*   probe.result     the value resolved with                              *)
(*   probe.error      the message rejected with                            *)
(* A component of version.number is [neg, digits, tail]: a leading minus   *)
(* sign, the value of the leading digits (NoDigits when there are none)    *)
(* and whether other characters follow the digits.                         *)
(***************************************************************************)
MaxParts == 4

NoDigits == -1

\* a number, or NaN
NaN == [nan |-> TRUE, val |-> 0]

Num(n) == [nan |-> FALSE, val |-> n]

isNaN(x) == x.nan

\* an absent array element reads as undefined, which parseInt takes as
\* the text "undefined": no digits, other characters
Undefined == [neg |-> FALSE, digits |-> NoDigits, tail |-> TRUE]

HttpOk == 200

StatusCodes == {HttpOk, 401, 503}

ComponentSet ==
    {[neg |-> FALSE, digits |-> 7, tail |-> FALSE],
     [neg |-> FALSE, digits |-> 10, tail |-> FALSE],
     [neg |-> TRUE, digits |-> 1, tail |-> FALSE],
     [neg |-> FALSE, digits |-> 0, tail |-> TRUE],
     [neg |-> FALSE, digits |-> NoDigits, tail |-> TRUE],
     [neg |-> FALSE, digits |-> NoDigits, tail |-> FALSE]}

\* info.version.number.split('.') of every string over ComponentSet
VersionNumbers == UNION {[1..n -> ComponentSet] : n \in 1..MaxParts}

\* the empty string: one component with no character
EmptyNumber(num) ==
    Len(num) = 1 /\ num[1] = [neg |-> FALSE, digits |-> NoDigits,
                              tail |-> FALSE]

\* versionParts[i]
Part(num, i) == IF i \in 1..Len(num) THEN num[i] ELSE Undefined

\* parseInt(x, 10) that stops at the first character that is no digit
parseInt(c) ==
    IF c.digits = NoDigits THEN NaN
    ELSE IF c.neg THEN Num(0 - c.digits)
    ELSE Num(c.digits)

\* the bodies a cluster, a proxy or another service may send:
\*   json        JSON.parse succeeds
\*   hasVersion  info.version is present
\*   number      info.version.number, split at the dots
\*   tagline     info.version.distribution or info.tagline is present
Bodies ==
    {[json |-> FALSE, hasVersion |-> FALSE, number |-> <<>>,
      tagline |-> FALSE],
     [json |-> TRUE, hasVersion |-> FALSE, number |-> <<>>,
      tagline |-> TRUE]}
    \cup [json : {TRUE}, hasVersion : {TRUE}, number : VersionNumbers,
          tagline : BOOLEAN]

NoResp == [status |-> 0]

PendingProbe ==
    [state |-> "pending", calls |-> 0, settled |-> 0, delivered |-> <<>>,
     destroyed |-> FALSE, errQueued |-> FALSE, resp |-> NoResp,
     result |-> NoVersion, error |-> ""]

\* resolve(value) of the promise: only the first settlement counts
resolve(p, v) ==
    IF p.state = "pending"
    THEN [p EXCEPT !.state = "resolved", !.result = v,
                   !.calls = @ + 1, !.settled = @ + 1]
    ELSE [p EXCEPT !.calls = @ + 1]

\* reject(new Error(...)) of the promise
reject(p, e) ==
    IF p.state = "pending"
    THEN [p EXCEPT !.state = "rejected", !.error = e,
                   !.calls = @ + 1, !.settled = @ + 1]
    ELSE [p EXCEPT !.calls = @ + 1]

\* res.on('end'): status, JSON.parse, version, parseInt, distribution
onEnd(p, status, body) ==
    LET major == parseInt(Part(body.number, 1))
        minor == parseInt(Part(body.number, 2))
        patch == parseInt(Part(body.number, 3))
    IN  IF status # HttpOk THEN reject(p, "HTTP status")
        ELSE IF ~body.json THEN reject(p, "Failed to parse response")
        ELSE IF ~body.hasVersion \/ EmptyNumber(body.number)
        THEN reject(p, "Invalid response: missing version information")
        ELSE IF isNaN(major) \/ isNaN(minor) \/ isNaN(patch)
        THEN reject(p, "Invalid version format")
        ELSE IF ~body.tagline THEN reject(p, "Failed to parse response")
        ELSE resolve(p, [major |-> major.val, minor |-> minor.val,
                         patch |-> patch.val, full |-> body.number])

\* req.on('error')
onError(p) ==
    reject(p, "Connection failed")

\* a timeout handler that destroys the request and leaves the promise
onTimeoutDestroyOnly(p, raises) ==
    [p EXCEPT !.destroyed = TRUE, !.errQueued = raises]

\* req.on('timeout'): req.destroy(), then reject; raises tells whether the
\* destroyed request emits 'error' afterwards
onTimeout(p, raises) ==
    reject([p EXCEPT !.destroyed = TRUE, !.errQueued = raises],
           "Connection timeout")

ProbeInit ==
    /\ pc = "probing"
    /\ config \in {c \in EnvConfigs : ConfigValid(c)}
    /\ versionInfo = NoVersion
    /\ esClient = NoClient
    /\ steps = <<"validate">>
    /\ registeredTools = {}
    /\ maxTokenCall = DefaultBudget
    /\ call = NoCall
    /\ data = NoData
    /\ out = NoOut
    /\ probes = 0
    /\ clientsBuilt = 0
    /\ probe = NoProbe
    /\ transports = {}

\* new Promise(...) up to req.end()
SendRequest ==
    /\ pc = "probing"
    /\ probe = NoProbe
    /\ probe' = PendingProbe
    /\ probes' = probes + 1
    /\ UNCHANGED <<pc, config, versionInfo, esClient, steps,
                   registeredTools, maxTokenCall, clientsBuilt,
                   transports, toolVars>>

\* the response arrives whole: 'end' is emitted
ResponseEnd ==
    /\ pc = "probing"
    /\ probe # NoProbe
    /\ probe.delivered = <<>>
    /\ \E status \in StatusCodes, body \in Bodies :
          probe' = onEnd([probe EXCEPT !.delivered = <<"end">>,
                                       !.resp = [status |-> status,
                                                 body |-> body]],
                         status, body)
    /\ UNCHANGED <<pc, config, versionInfo, esClient, steps,
                   registeredTools, maxTokenCall, probes, clientsBuilt,
                   transports, toolVars>>

\* the connection fails: 'error' is emitted
RequestError ==
    /\ pc = "probing"
    /\ probe # NoProbe
    /\ probe.delivered = <<>>
    /\ probe' = onError([probe EXCEPT !.delivered = <<"error">>])
    /\ UNCHANGED <<pc, config, versionInfo, esClient, steps,
                   registeredTools, maxTokenCall, probes, clientsBuilt,
                   transports, toolVars>>

\* the socket stays idle for timeoutMs: 'timeout' is emitted
RequestTimeout ==
    /\ pc = "probing"
    /\ probe # NoProbe
    /\ probe.delivered = <<>>
    /\ \E raises \in BOOLEAN :
          probe' = onTimeout([probe EXCEPT !.delivered = <<"timeout">>],
                             raises)
    /\ UNCHANGED <<pc, config, versionInfo, esClient, steps,
                   registeredTools, maxTokenCall, probes, clientsBuilt,
                   transports, toolVars>>

\* the destroyed request emits its 'error'
DestroyError ==
    /\ pc = "probing"
    /\ probe # NoProbe
    /\ probe.errQueued
    /\ probe' = onError([probe EXCEPT !.errQueued = FALSE,
                                      !.delivered = Append(@, "error")])
    /\ UNCHANGED <<pc, config, versionInfo, esClient, steps,
                   registeredTools, maxTokenCall, probes, clientsBuilt,
                   transports, toolVars>>

ProbeNext ==
    \/ SendRequest
    \/ ResponseEnd
    \/ RequestError
    \/ RequestTimeout
    \/ DestroyError

\* the executor runs to req.end() at once, the socket timeout
\* (requestOptions.timeout) fires unless another event comes first, and a
\* queued 'error' is emitted on the next tick
SpecProbe ==
    /\ ProbeInit
    /\ [][ProbeNext]_vars
    /\ WF_vars(SendRequest)
    /\ WF_vars(RequestTimeout)
    /\ WF_vars(DestroyError)

(***************************************************************************)
(* analyzeDataStreamHealth (src/src/datastream-analyzer.ts).               *)
(*   dsInfo: backing_indices (each with health and store_size),            *)
(*           indices_count, ilm_policy (absent, empty or set)              *)
(*   stats:  total_size_gb                                                 *)
(* A store_size is [value, unit]; sizes are counted in MiB, so that 1gb    *)
(* is 1024.  An issue or recommendation is modelled by the condition that  *)
(* pushes it.                                                              *)
(***************************************************************************)
MaxBacking == 2

HealthValues == {"red", "yellow", "green", "absent"}

NoSize == [value |-> 0, unit |-> "absent"]

StoreSizes == {NoSize, [value |-> 50, unit |-> "gb"],
               [value |-> 51201, unit |-> "mb"]}

IndexCounts == {0, 4, 5, 100, 101, 200, 201}

TotalSizesGb == {49, 50, 100, 101}

BackingIndexLists ==
    UNION {[1..n -> [health : HealthValues, store_size : StoreSizes]] :
              n \in 0..MaxBacking}

\* parseSizeToBytes, in MiB: 0 for an absent size, value * multiplier
parseSizeToBytes(sz) ==
    CASE sz.unit = "mb" -> sz.value
      [] sz.unit = "gb" -> sz.value * 1024
      [] sz.unit = "tb" -> sz.value * 1024 * 1024
      [] OTHER -> 0

\* a status that looks at the warning conditions first
OverallStatusWarningFirst(hasRed, excessive, hasYellow, large, rollover, noIlm) ==
    IF hasYellow \/ large \/ rollover \/ noIlm THEN "warning"
    ELSE IF hasRed \/ excessive THEN "critical"
    ELSE "healthy"

\* "Determine overall status"
OverallStatus(hasRed, excessive, hasYellow, large, rollover, noIlm) ==
    IF hasRed \/ excessive THEN "critical"
    ELSE IF hasYellow \/ large \/ rollover \/ noIlm THEN "warning"
    ELSE "healthy"

analyzeDataStreamHealth(dsInfo, stats) ==
    LET bi == dsInfo.backing_indices
        healths == [i \in 1..Len(bi) |-> bi[i].health]
        hasRed == \E i \in 1..Len(bi) : bi[i].health = "red"
        hasYellow == \E i \in 1..Len(bi) : bi[i].health = "yellow"
        redIssues == SelectSeq(healths, LAMBDA h : h = "red")
        excessiveIndices == dsInfo.indices_count > 200
        largeCurrentIndex ==
            /\ Len(bi) > 0
            /\ bi[Len(bi)].store_size # NoSize
            /\ parseSizeToBytes(bi[Len(bi)].store_size) > 50 * 1024
        tooFew == dsInfo.indices_count < 5 /\ stats.total_size_gb > 100
        tooMany == /\ ~tooFew
                   /\ dsInfo.indices_count > 100
                   /\ stats.total_size_gb < 50
        noIlm == ~Truthy(dsInfo.ilm_policy)
        pushed == (IF excessiveIndices THEN <<"excessive">> ELSE <<>>)
                  \o (IF largeCurrentIndex THEN <<"large">> ELSE <<>>)
                  \o (IF tooFew THEN <<"too few">> ELSE <<>>)
                  \o (IF tooMany THEN <<"too many">> ELSE <<>>)
                  \o (IF noIlm THEN <<"no ilm">> ELSE <<>>)
    IN  [status |-> OverallStatus(hasRed, excessiveIndices, hasYellow,
                                  largeCurrentIndex, tooFew \/ tooMany,
                                  noIlm),
         issues |-> redIssues \o pushed,
         recommendations |-> pushed,
         has_red_indices |-> hasRed,
         has_yellow_indices |-> hasYellow,
         excessive_backing_indices |-> excessiveIndices,
         large_current_index |-> largeCurrentIndex,
         rollover_issues |-> tooFew \/ tooMany]

AnalyzeInit ==
    /\ pc = "analyze"
    /\ config \in {c \in EnvConfigs : ConfigValid(c) /\ Truthy(c.apiKey)
                                      /\ ~Truthy(c.username)}
    /\ versionInfo = [major |-> 7, minor |-> 9, patch |-> 0]
    /\ esClient = NoClient
    /\ steps = <<>>
    /\ registeredTools = {}
    /\ maxTokenCall = DefaultBudget
    /\ call = NoCall
    /\ data \in [dsInfo : [backing_indices : BackingIndexLists,
                           indices_count : IndexCounts,
                           ilm_policy : Creds],
                 stats : [total_size_gb : TotalSizesGb]]
    /\ out = NoOut
    /\ probes = 0
    /\ clientsBuilt = 0
    /\ probe = NoProbe
    /\ transports = {}

\* generateDataStreamSummary calls analyzeDataStreamHealth(dsInfo, stats)
Analyze ==
    /\ pc = "analyze"
    /\ pc' = "analyzed"
    /\ call' = [tool |-> "analyzeDataStreamHealth"]
    /\ out' = analyzeDataStreamHealth(data.dsInfo, data.stats)
    /\ UNCHANGED <<config, versionInfo, esClient, steps, registeredTools,
                   maxTokenCall, data, probes, clientsBuilt, netVars>>

AnalyzeNext ==
    \/ Analyze

SpecAnalyze == AnalyzeInit /\ [][AnalyzeNext]_vars

(***************************************************************************)
(* analyzeShardHealth (shard analyzer, src/src/tools/list-indices.ts).     *)
(*   shards: the rows of cat.shards, each with index, shard, prirep,       *)
(*           state, docs, store and node                                   *)
(*   docs is the parsed document count in millions and store the parsed    *)
(*   size in GiB; 0 stands for an absent or unparsable text.               *)
(* The result keeps the counters and lists the properties read;            *)
(* problem_shards are lists of positions in shards, same_node_issues the   *)
(* set of flagged index names.  Every row carries an index and a shard     *)
(* number, as the rows of cat.shards do, so no row is skipped for missing  *)
(* essential data.                                                         *)
(***************************************************************************)
MaxShards == 3

\* (docs, store) of the rows
ShardMeasures ==
    {[docs |-> 0, store |-> 0], [docs |-> 99, store |-> 5],
     [docs |-> 150, store |-> 20], [docs |-> 201, store |-> 60],
     [docs |-> 250, store |-> 101]}

\* rows that differ in role, state and measures
MeasuredShards ==
    {[index |-> "a", shard |-> "0", prirep |-> p, state |-> st,
      docs |-> m.docs, store |-> m.store, node |-> "n1"] :
        p \in {"p", "r"}, st \in {"STARTED", "UNASSIGNED"},
        m \in ShardMeasures}

\* rows that differ in index, shard number, role, letter case and node
PlacedShards ==
    {[index |-> is[1], shard |-> is[2], prirep |-> p, state |-> st,
      docs |-> 99, store |-> 5, node |-> n] :
        is \in {<<"a", "0">>, <<"a", "1">>, <<"b", "0">>},
        p \in {"p", "r"}, st \in {"STARTED", "started"},
        n \in {"n1", "n2"}}

ShardInputs ==
    [shards : UNION {[1..n -> MeasuredShards] : n \in 0..MaxShards},
     sizeThresholdGB : {50}, docsThresholdM : {200, 100}]
    \cup
    [shards : UNION {[1..n -> PlacedShards] : n \in 0..MaxShards},
     sizeThresholdGB : {50}, docsThresholdM : {200}]

\* String.prototype.toLowerCase on the state values
toLowerCase(st) ==
    CASE st = "STARTED" -> "started"
      [] st = "UNASSIGNED" -> "unassigned"
      [] OTHER -> st

\* a filter that takes every started copy
AnalyzedShardAnyCopy(s) ==
    toLowerCase(s.state) = "started"

\* shard.prirep === 'p' && state === 'started'
AnalyzedShard(s) ==
    s.prirep = "p" /\ toLowerCase(s.state) = "started"

\* the rows of shards, by position, that satisfy P
Rows(shards, P(_)) == {i \in 1..Len(shards) : P(shards[i])}

\* the positions of a set in increasing order: the order of the pushes
RECURSIVE InOrder(_)
InOrder(S) ==
    IF S = {} THEN <<>>
    ELSE LET i == CHOOSE x \in S : \A y \in S : x <= y
         IN  <<i>> \o InOrder(S \ {i})

SizeBucket(s, sizeThresholdGB) ==
    IF s.store = 0 THEN "unknown"
    ELSE IF s.store > 100 THEN "oversized"
    ELSE IF s.store > sizeThresholdGB THEN "large"
    ELSE IF s.store >= 10 THEN "optimal"
    ELSE "small"

DocsBucket(s, docsThresholdM) ==
    IF s.docs = 0 THEN "unknown"
    ELSE IF s.docs > docsThresholdM THEN "critical"
    ELSE IF s.docs > 100 THEN "warning"
    ELSE "healthy"

\* the second pass: rows whose state is exactly 'STARTED'
ReplicaConfig(shards, index) ==
    LET rows == {i \in 1..Len(shards) : /\ shards[i].index = index
                                        /\ shards[i].state = "STARTED"}
    IN  [seen |-> rows # {},
         replicas |-> Cardinality({i \in rows : shards[i].prirep = "r"}),
         primaryNodes |-> {shards[i].node :
                              i \in {j \in rows : shards[j].prirep = "p"}},
         replicaNodes |-> {shards[i].node :
                              i \in {j \in rows : shards[j].prirep = "r"}}]

\* replicasPerShard = replicas / (primaryNodes.size || 1) against 0.5, 1.5
ReplicaClass(cfg) ==
    LET primaryCount == IF cfg.primaryNodes = {} THEN 1
                        ELSE Cardinality(cfg.primaryNodes)
    IN  IF 2 * cfg.replicas < primaryCount THEN "zero"
        ELSE IF 2 * cfg.replicas < 3 * primaryCount THEN "one"
        ELSE "two_plus"

analyzeShardHealth(shards, sizeThresholdGB, docsThresholdM) ==
    LET n(P(_)) == Cardinality(Rows(shards, P))
        primaries == Rows(shards, AnalyzedShard)
        size(b) == {i \in primaries :
                       SizeBucket(shards[i], sizeThresholdGB) = b}
        docs(b) == {i \in primaries :
                       DocsBucket(shards[i], docsThresholdM) = b}
        indices == {shards[i].index : i \in 1..Len(shards)}
        seen == {x \in indices : ReplicaConfig(shards, x).seen}
        class(c) == Cardinality({x \in seen :
                        ReplicaClass(ReplicaConfig(shards, x)) = c})
    IN  [total_shards |-> Len(shards),
         primary_shards |-> n(LAMBDA s : s.prirep = "p"),
         replica_shards |-> n(LAMBDA s : s.prirep # "p"),
         states |->
            [started |-> n(LAMBDA s : toLowerCase(s.state) = "started"),
             unassigned |->
                n(LAMBDA s : toLowerCase(s.state) = "unassigned")],
         size_health |->
            [optimal |-> Cardinality(size("optimal")),
             large |-> Cardinality(size("large")),
             oversized |-> Cardinality(size("oversized")),
             small |-> Cardinality(size("small")),
             unknown |-> Cardinality(size("unknown"))],
         docs_health |->
            [healthy |-> Cardinality(docs("healthy")),
             warning |-> Cardinality(docs("warning")),
             critical |-> Cardinality(docs("critical")),
             unknown |-> Cardinality(docs("unknown"))],
         problem_shards |->
            [oversized |-> InOrder(size("oversized")),
             over_documented |-> InOrder(docs("critical"))],
         replica_analysis |->
            [by_replica_count |->
                [zero |-> class("zero"), one |-> class("one"),
                 two_plus |-> class("two_plus")],
             same_node_issues |->
                {x \in seen :
                    ReplicaConfig(shards, x).primaryNodes
                       \cap ReplicaConfig(shards, x).replicaNodes # {}}]]

ShardsInit ==
    /\ pc = "shards"
    /\ config \in {c \in EnvConfigs : ConfigValid(c) /\ Truthy(c.apiKey)
                                      /\ ~Truthy(c.username)}
    /\ versionInfo = [major |-> 7, minor |-> 9, patch |-> 0]
    /\ esClient = NoClient
    /\ steps = <<>>
    /\ registeredTools = {}
    /\ maxTokenCall = DefaultBudget
    /\ call = NoCall
    /\ data \in ShardInputs
    /\ out = NoOut
    /\ probes = 0
    /\ clientsBuilt = 0
    /\ probe = NoProbe
    /\ transports = {}

\* get_shards calls analyzeShardHealth(shardData, size, docs)
AnalyzeShards ==
    /\ pc = "shards"
    /\ pc' = "sharded"
    /\ call' = [tool |-> "analyzeShardHealth"]
    /\ out' = analyzeShardHealth(data.shards, data.sizeThresholdGB,
                                 data.docsThresholdM)
    /\ UNCHANGED <<config, versionInfo, esClient, steps, registeredTools,
                   maxTokenCall, data, probes, clientsBuilt, netVars>>

ShardsNext ==
    \/ AnalyzeShards

SpecShards == ShardsInit /\ [][ShardsNext]_vars

(***************************************************************************)
(* The index lists of list_indices: groupIndicesByPattern of the index     *)
(* analyzer (src/unnamed/part_002) and the sort_by=health ordering of the  *)
(* handler (src/src/tools/list-indices.ts).                                *)
(*   An index is [base, date, docs, health]: its name is base followed by  *)
(*   a date suffix, date 0 standing for a name without one; dates are      *)
(*   numbered in the order of their texts; docs is parseInt of docsCount   *)
(*   (0 when absent); health "" is an absent health.                       *)
(***************************************************************************)
MaxIndices == 3

NoRange == [earliest |-> 0, latest |-> 0]

\* names with and without a date suffix, among them the base "other"
GroupedIndices ==
    [base : {"logs", "other"}, date : 0..3, docs : {0, 5},
     health : {"green"}]

\* names of every health
HealthIndices ==
    [base : {"a", "b"}, date : {0}, docs : {0},
     health : {"green", "yellow", "red", ""}]

IndexLists ==
    UNION {[1..n -> GroupedIndices] \cup [1..n -> HealthIndices] :
              n \in 0..MaxIndices}

\* the regular expressions of detectTimeSeriesPattern, on the parts of a
\* name
detectTimeSeriesPattern(idx) ==
    IF idx.date = 0
    THEN [isTimeSeries |-> FALSE, basePattern |-> "", date |-> 0]
    ELSE [isTimeSeries |-> TRUE, basePattern |-> idx.base,
          date |-> idx.date]

EarlierDate(cur, d) == IF d < cur THEN d ELSE cur

\* a latest date that is overwritten by every dated index
LaterDateLastWins(cur, d) == d

LaterDate(cur, d) == IF d > cur THEN d ELSE cur

\* one pass of the loop: the group of key is created or updated by idx
GroupStep(groups, idx) ==
    LET det == detectTimeSeriesPattern(idx)
        key == IF det.isTimeSeries /\ det.basePattern # ""
               THEN det.basePattern ELSE "other"
        known == \E k \in 1..Len(groups) : groups[k].pattern = key
        with == IF known THEN groups
                ELSE Append(groups, [pattern |-> key, count |-> 0,
                                     totalDocs |-> 0,
                                     dateRange |-> NoRange])
        upd(g) ==
            [g EXCEPT !.count = @ + 1,
                      !.totalDocs = @ + idx.docs,
                      !.dateRange =
                          IF ~(det.isTimeSeries /\ det.date # 0) THEN @
                          ELSE IF @ = NoRange
                          THEN [earliest |-> det.date, latest |-> det.date]
                          ELSE [earliest |-> EarlierDate(@.earliest,
                                                          det.date),
                                latest |-> LaterDate(@.latest, det.date)]]
    IN  [k \in 1..Len(with) |->
            IF with[k].pattern = key THEN upd(with[k]) ELSE with[k]]

\* the Map of groups in insertion order
RECURSIVE GroupPrefix(_, _)
GroupPrefix(indices, n) ==
    IF n = 0 THEN <<>>
    ELSE GroupStep(GroupPrefix(indices, n - 1), indices[n])

groupIndicesByPattern(indices) == GroupPrefix(indices, Len(indices))

\* healthOrder[health] || 3 with healthOrder = {green: 0, yellow: 1, red: 2}
HealthRank(health) ==
    LET looked == CASE health = "green" -> 0
                    [] health = "yellow" -> 1
                    [] health = "red" -> 2
                    [] OTHER -> 0
    IN  IF looked = 0 THEN 3 ELSE looked

\* x put into a list sorted by rank, after the entries of equal rank
InsertByRank(sorted, x) ==
    LET before == {k \in 1..Len(sorted) :
                      HealthRank(sorted[k].health) <= HealthRank(x.health)}
        at == Cardinality(before)
    IN  SubSeq(sorted, 1, at) \o <<x>> \o SubSeq(sorted, at + 1, Len(sorted))

\* Array.prototype.sort with the health comparator: a stable sort
RECURSIVE SortByHealthPrefix(_, _)
SortByHealthPrefix(indices, n) ==
    IF n = 0 THEN <<>>
    ELSE InsertByRank(SortByHealthPrefix(indices, n - 1), indices[n])

SortByHealth(indices) == SortByHealthPrefix(indices, Len(indices))

IndicesInit ==
    /\ pc = "indices"
    /\ config \in {c \in EnvConfigs : ConfigValid(c) /\ Truthy(c.apiKey)
                                      /\ ~Truthy(c.username)}
    /\ versionInfo = [major |-> 7, minor |-> 9, patch |-> 0]
    /\ esClient = NoClient
    /\ steps = <<>>
    /\ registeredTools = {}
    /\ maxTokenCall = DefaultBudget
    /\ call = NoCall
    /\ data \in [indices : IndexLists]
    /\ out = NoOut
    /\ probes = 0
    /\ clientsBuilt = 0
    /\ probe = NoProbe
    /\ transports = {}

\* generateIndexSummary groups the indices of the response
GroupIndices ==
    /\ pc = "indices"
    /\ pc' = "grouped"
    /\ call' = [tool |-> "groupIndicesByPattern"]
    /\ out' = [groups |-> groupIndicesByPattern(data.indices)]
    /\ UNCHANGED <<config, versionInfo, esClient, steps, registeredTools,
                   maxTokenCall, data, probes, clientsBuilt, netVars>>

\* list_indices with sort_by = "health" sorts the indices of the response
SortIndices ==
    /\ pc = "indices"
    /\ pc' = "sorted"
    /\ call' = [tool |-> "list_indices", sort_by |-> "health"]
    /\ out' = [indices |-> SortByHealth(data.indices)]
    /\ UNCHANGED <<config, versionInfo, esClient, steps, registeredTools,
                   maxTokenCall, data, probes, clientsBuilt, netVars>>

IndicesNext ==
    \/ GroupIndices
    \/ SortIndices

SpecIndices == IndicesInit /\ [][IndicesNext]_vars

(***************************************************************************)
(* detectCapabilities of the mapping analyzer (src/unnamed/part_003).      *)
(*   type: the field's type; fieldDef: doc_values and index, each "true",  *)
(*   "false" or "absent".  The capabilities are the letters pushed, in     *)
(*   the order of the pushes.                                              *)
(***************************************************************************)
KeywordTypes == {"keyword", "constant_keyword", "wildcard"}

NumericTypes == {"long", "integer", "short", "byte", "double", "float",
                 "half_float", "scaled_float", "unsigned_long"}

DateTypes == {"date", "date_nanos"}

GeoTypes == {"geo_point", "geo_shape"}

FieldTypes ==
    {"text", "boolean", "ip", "nested", "object", "binary"}
    \cup KeywordTypes \cup NumericTypes \cup DateTypes \cup GeoTypes

FieldDefs == [doc_values : {"true", "false", "absent"},
              index : {"true", "false", "absent"}]

\* the switch over the type
TypeCapabilities(type) ==
    CASE type = "text" -> <<"S">>
      [] type \in KeywordTypes -> <<"T", "A", "O">>
      [] type \in NumericTypes -> <<"T", "A", "O", "R">>
      [] type \in DateTypes -> <<"T", "A", "O", "R">>
      [] type = "boolean" -> <<"T", "A">>
      [] type = "ip" -> <<"T", "A", "R">>
      [] type \in GeoTypes -> <<"G">>
      [] type = "nested" -> <<"N">>
      [] OTHER -> <<>>

detectCapabilities(type, fieldDef) ==
    LET caps == TypeCapabilities(type)
        stripped == IF fieldDef.doc_values = "false"
                    THEN SelectSeq(caps, LAMBDA c : c # "A")
                    ELSE caps
    IN  IF fieldDef.index = "false" THEN <<>> ELSE stripped

MappingsInit ==
    /\ pc = "field"
    /\ config \in {c \in EnvConfigs : ConfigValid(c) /\ Truthy(c.apiKey)
                                      /\ ~Truthy(c.username)}
    /\ versionInfo = [major |-> 7, minor |-> 9, patch |-> 0]
    /\ esClient = NoClient
    /\ steps = <<>>
    /\ registeredTools = {}
    /\ maxTokenCall = DefaultBudget
    /\ call = NoCall
    /\ data \in [type : FieldTypes, fieldDef : FieldDefs]
    /\ out = NoOut
    /\ probes = 0
    /\ clientsBuilt = 0
    /\ probe = NoProbe
    /\ transports = {}

\* extractFields calls detectCapabilities(type, fieldDef) for a field
DetectCapabilities ==
    /\ pc = "field"
    /\ pc' = "detected"
    /\ call' = [tool |-> "detectCapabilities"]
    /\ out' = [capabilities |-> detectCapabilities(data.type, data.fieldDef)]
    /\ UNCHANGED <<config, versionInfo, esClient, steps, registeredTools,
                   maxTokenCall, data, probes, clientsBuilt, netVars>>

MappingsNext ==
    \/ DetectCapabilities

SpecMappings == MappingsInit /\ [][MappingsNext]_vars

(***************************************************************************)
(* list_data_streams: the stats of the backing indices, fetched in         *)
(* batches (src/unnamed/part_005).                                         *)
(*   names    the number of distinct backing-index names; the names are    *)
(*            1..names in the order of allIndicesArray                     *)
(*   failing  the batches, by number, whose cat.indices request throws     *)
(* The result lists the batches requested, the names with an entry in      *)
(* indexInfoMap and the backing_indices records built from it.             *)
(***************************************************************************)
MaxNames == 101

BATCH_SIZE == 50

BatchCount(names) == (names + BATCH_SIZE - 1) \div BATCH_SIZE

\* allIndicesArray.slice(i, i + BATCH_SIZE) of the k-th pass
Batch(names, k) ==
    {i \in 1..names : (k - 1) * BATCH_SIZE < i /\ i <= k * BATCH_SIZE}

\* the loop over the batches and the map over ds.indices
FetchBackingIndices(names, failing) ==
    LET passes == BatchCount(names)
        infoMap == UNION {Batch(names, k) : k \in (1..passes) \ failing}
    IN  [requested |-> [k \in 1..passes |-> Batch(names, k)],
         indexInfoMap |-> infoMap,
         backing_indices |->
            [i \in 1..names |->
                IF i \in infoMap
                THEN [index |-> i, stats |-> TRUE]
                ELSE [index |-> i, stats |-> FALSE]],
         returned |-> TRUE]

BatchesInit ==
    /\ pc = "streams"
    /\ config \in {c \in EnvConfigs : ConfigValid(c) /\ Truthy(c.apiKey)
                                      /\ ~Truthy(c.username)}
    /\ versionInfo = [major |-> 7, minor |-> 9, patch |-> 0]
    /\ esClient = NoClient
    /\ steps = <<>>
    /\ registeredTools = {"list_data_streams"}
    /\ maxTokenCall = DefaultBudget
    /\ call = NoCall
    /\ data \in {d \in [names : 1..MaxNames, failing : SUBSET (1..3)] :
                    d.failing \subseteq 1..BatchCount(d.names)}
    /\ out = NoOut
    /\ probes = 0
    /\ clientsBuilt = 0
    /\ probe = NoProbe
    /\ transports = {}

\* the handler of list_data_streams up to the list of dsInfo
FetchStats ==
    /\ pc = "streams"
    /\ pc' = "fetched"
    /\ call' = [tool |-> "list_data_streams"]
    /\ out' = FetchBackingIndices(data.names, data.failing)
    /\ UNCHANGED <<config, versionInfo, esClient, steps, registeredTools,
                   maxTokenCall, data, probes, clientsBuilt, netVars>>

BatchesNext ==
    \/ FetchStats

SpecBatches == BatchesInit /\ [][BatchesNext]_vars

(***************************************************************************)
(* es_search: the request handed to esClient.search                        *)
(* (src/src/tools/search.ts).                                              *)
(*   index      the index parameter                                        *)
(*   queryBody  the keys of the query DSL object that matter here, each    *)
(*              "absent" when the object lacks it                          *)
(***************************************************************************)
IndexNames == {"a", "b"}

QueryBodies ==
    [index : {"absent", "null"} \cup IndexNames,
     timeout : {"absent", "1s", "30s"},
     size : {"absent", "10"},
     from : {"absent", "0", "10"},
     query : {"absent", "match_all"}]

\* { index, ...queryBody, timeout: '30s' }: a later key replaces an
\* earlier one
BuildSearchRequest(index, queryBody) ==
    [index |-> IF queryBody.index # "absent" THEN queryBody.index
               ELSE index,
     timeout |-> "30s",
     size |-> queryBody.size,
     from |-> queryBody.from,
     query |-> queryBody.query]

SearchRequestInit ==
    /\ pc = "search"
    /\ config \in {c \in EnvConfigs : ConfigValid(c) /\ Truthy(c.apiKey)
                                      /\ ~Truthy(c.username)}
    /\ versionInfo = [major |-> 7, minor |-> 9, patch |-> 0]
    /\ esClient = NoClient
    /\ steps = <<>>
    /\ registeredTools = {"es_search"}
    /\ maxTokenCall = DefaultBudget
    /\ call = NoCall
    /\ data \in [index : IndexNames, queryBody : QueryBodies]
    /\ out = NoOut
    /\ probes = 0
    /\ clientsBuilt = 0
    /\ probe = NoProbe
    /\ transports = {}

\* the handler of es_search up to esClient.search(searchRequest):
\* getMapping({index}), then the request
SendSearch ==
    /\ pc = "search"
    /\ pc' = "searching"
    /\ call' = [tool |-> "es_search"]
    /\ out' = [mappingIndex |-> data.index,
               searchRequest |-> BuildSearchRequest(data.index,
                                                    data.queryBody)]
    /\ UNCHANGED <<config, versionInfo, esClient, steps, registeredTools,
                   maxTokenCall, data, probes, clientsBuilt, netVars>>

SearchRequestNext ==
    \/ SendSearch

SpecSearchRequest == SearchRequestInit /\ [][SearchRequestNext]_vars

(***************************************************************************)
(* Properties.                                                             *)
(***************************************************************************)
Requested == call.tool # "none"

\* the request reached the data: the cluster answered
Answered == Requested /\ ~data.fails

\* tokens of all the text the handler returned
ReturnedTokens == calculateTokens(out.len)

\* tokens of the chosen rendering alone
BodyTokens == calculateTokens(out.bodyLen)

\* C1 as stated: with break_token_rule = false the complete text returned by
\* any of the six tools measures at most maxTokenCall tokens.
C1_AsStated ==
    (Requested /\ ~call.break_token_rule) => ReturnedTokens <= maxTokenCall

\* C1, amended: with break_token_rule = false, a data result of es_search,
\* execute_es_api, get_mappings, list_data_streams and of the detailed view
\* of list_indices measures at most maxTokenCall tokens; for get_shards only
\* the analysis text before the statistics footer is bounded; for the
\* list_indices summary only the rendering the auto ladder chose at level
\* full or compact is bounded.
C1_Budget ==
    (Requested /\ ~call.break_token_rule) =>
        /\ (/\ call.tool # "get_shards"
            /\ out.kind \in {"hits", "api", "mapping", "raw", "comparison",
                             "streams", "detailed"})
               => ReturnedTokens <= maxTokenCall
        /\ (call.tool = "get_shards" /\ out.kind \in {"raw", "analysis"})
               => BodyTokens <= maxTokenCall
        /\ (/\ call.tool = "list_indices"
            /\ out.kind = "summary"
            /\ (call.summary_level = "auto" \/ out.fallback)
            /\ out.level \in {"full", "compact"})
               => BodyTokens <= maxTokenCall

\* get_shards returned an analysis that fills the budget exactly, and the
\* footer appended after the comparison takes the text beyond it
C1_Witness ==
    /\ call.tool = "get_shards"
    /\ ~call.break_token_rule
    /\ out.kind = "analysis"
    /\ BodyTokens = maxTokenCall
    /\ ReturnedTokens > maxTokenCall

\* the level the ladder full -> compact -> minimal has to report
FirstFittingLevel ==
    IF calculateTokens(data.fullLen) <= maxTokenCall THEN "full"
    ELSE IF calculateTokens(data.compactLen) <= maxTokenCall THEN "compact"
    ELSE "minimal"

\* C2: in the list_indices summary with the auto level and
\* break_token_rule = false, entered directly or by fallback from the
\* detailed view, the reported level is the first of full, compact, minimal
\* whose token estimate is within maxTokenCall, and minimal when none is.
C2_AutoLadder ==
    (/\ call.tool = "list_indices"
     /\ ~call.break_token_rule
     /\ out.kind = "summary"
     /\ (call.summary_level = "auto" \/ out.fallback))
        => /\ out.level = FirstFittingLevel
           /\ out.bodyLen = (CASE out.level = "full" -> data.fullLen
                               [] out.level = "compact" -> data.compactLen
                               [] OTHER -> data.minimalLen)

\* the fallback from the detailed view passed over a full summary that is
\* too large and took a compact one that fills the budget exactly
C2_Witness ==
    /\ call.tool = "list_indices"
    /\ out.fallback
    /\ out.level = "compact"
    /\ calculateTokens(data.fullLen) > maxTokenCall
    /\ calculateTokens(data.compactLen) = maxTokenCall

FiveTools ==
    {"get_mappings", "es_search", "execute_es_api", "get_shards",
     "list_data_streams"}

C4_BreakRule ==
    /\ \A len \in RenderLens \cup {0}, m \in Budgets \cup {0} :
          checkTokenLimit(<<len>>, m, TRUE).allowed
    /\ (Requested /\ call.break_token_rule)
          => /\ out.kind # "limitError"
             /\ ~out.isError
             /\ ~out.fallback
             /\ (call.tool = "list_indices" /\ out.kind = "summary"
                 /\ call.summary_level = "auto")
                   => out.level = "full" /\ out.bodyLen = data.fullLen
             /\ (call.tool = "list_data_streams" /\ Answered
                 /\ DS_Count(data) > 0 /\ call.summary_level = "auto")
                   => out.level = (IF DS_ShouldUseSummary(call, DS_Count(data))
                                   THEN "comparison" ELSE "minimal")

\* the override let a full summary through that is over the budget
C4_Witness ==
    /\ call.tool = "list_indices"
    /\ call.break_token_rule
    /\ call.summary_level = "auto"
    /\ out.kind = "summary"
    /\ out.level = "full"
    /\ BodyTokens > maxTokenCall

\* the caller asked for the full / raw level
ExplicitFull ==
    \/ call.tool = "get_shards" /\ call.analysis_mode = "full"
    \/ call.tool \in {"get_mappings", "list_data_streams", "list_indices"}
       /\ call.summary_level = "full"

\* the cluster answered with at least one item
NonEmpty ==
    CASE call.tool = "list_indices" -> data.n > 0
      [] call.tool = "get_mappings" -> data.nIdx > 0
      [] call.tool = "list_data_streams" -> DS_Count(data) > 0
      [] OTHER -> TRUE

ExplicitReduced ==
    /\ call.tool \in {"list_indices", "get_mappings", "list_data_streams"}
    /\ call.summary_level \in {"compact", "minimal"}

\* C6 as stated: an explicit compact or minimal level is rendered and
\* returned regardless of its size, never replaced by a blocking error.
C6_AsStated ==
    (Answered /\ ExplicitReduced /\ NonEmpty)
        => ~out.isError /\ out.kind # "limitError"

\* C6, amended: only the summary view of list_indices returns an explicit
\* compact or minimal level regardless of its size. get_mappings (one
\* index, no comparison) and list_data_streams (no compare_mode) render
\* the requested level, but with break_token_rule = false the result is
\* passed through checkTokenLimit and replaced by the blocking token-limit
\* error (isError) when it is over maxTokenCall.
C6_ExplicitLevel ==
    (Answered /\ ExplicitReduced /\ NonEmpty) =>
        /\ (call.tool = "list_indices" /\ LI_UseSummary(call, data.n))
              => /\ out.kind = "summary"
                 /\ out.level = call.summary_level
                 /\ out.bodyLen = (IF call.summary_level = "compact"
                                   THEN data.compactLen ELSE data.minimalLen)
                 /\ ~out.checked
                 /\ ~out.isError
        /\ (call.tool = "get_mappings" /\ data.nIdx = 1)
              => /\ out.kind \in {"mapping", "limitError"}
                 /\ out.level = call.summary_level
                 /\ out.kind = "mapping"
                       => /\ out.bodyLen = GM_SingleText(call, data)
                          /\ ~call.break_token_rule
                                => ReturnedTokens <= maxTokenCall
                 /\ out.kind = "limitError"
                       => ~call.break_token_rule /\ out.isError
        /\ (call.tool = "list_data_streams" /\ ~call.compare_mode)
              => /\ out.kind \in {"streams", "limitError"}
                 /\ out.level = call.summary_level
                 /\ (out.kind = "streams" /\ ~call.break_token_rule)
                       => ReturnedTokens <= maxTokenCall
                 /\ out.kind = "limitError"
                       => ~call.break_token_rule /\ out.isError

\* get_mappings at the explicit compact level of one index, over the
\* budget: the blocking error instead of the rendering
C6_Witness ==
    /\ call.tool = "get_mappings"
    /\ call.summary_level = "compact"
    /\ data.nIdx = 1
    /\ out.kind = "limitError"
    /\ out.isError

\* C7 as stated: more than 200 indices always give the summary rendering,
\* more than 50 streams at the auto level always the aggregate rendering.
C7_AsStated ==
    /\ (Answered /\ call.tool = "list_indices"
        /\ data.n > AUTO_SUMMARY_THRESHOLD)
          => out.kind = "summary"
    /\ (Answered /\ call.tool = "list_data_streams"
        /\ call.summary_level = "auto"
        /\ DS_Count(data) > DS_AUTO_SUMMARY_THRESHOLD)
          => out.kind \in {"comparison", "limitError"}
             /\ out.level = "comparison"

\* C7, amended: list_indices enters the summary rendering on more than 200
\* indices only while max_display is left at its default 100 (besides
\* summary_mode = true and max_display = 0); with another max_display the
\* itemized listing is attempted whatever the count. list_data_streams at
\* the auto level with more than 50 streams uses the aggregate comparison
\* only when its token estimate is within maxTokenCall or break_token_rule
\* is set, and an itemized overview otherwise. At exactly 200 indices /
\* 50 streams with default parameters the itemized listing is attempted.
C7_Thresholds ==
    /\ (Answered /\ call.tool = "list_indices")
          => /\ (out.kind = "summary" /\ ~out.fallback)
                   <=> \/ call.summary_mode
                       \/ call.max_display = 0
                       \/ (data.n > AUTO_SUMMARY_THRESHOLD
                           /\ call.max_display = 100)
             /\ (data.n = AUTO_SUMMARY_THRESHOLD /\ ~call.summary_mode
                 /\ call.max_display = 100)
                   => out.kind = "detailed" \/ out.fallback
    /\ (Answered /\ call.tool = "list_data_streams"
        /\ call.summary_level = "auto" /\ ~call.compare_mode
        /\ DS_Count(data) > 0)
          => /\ DS_Count(data) > DS_AUTO_SUMMARY_THRESHOLD
                   => out.level =
                        (IF calculateTokens(data.comparisonLen) <= maxTokenCall
                            \/ call.break_token_rule
                         THEN "comparison" ELSE "minimal")
             /\ (DS_Count(data) <= DS_AUTO_SUMMARY_THRESHOLD
                 /\ out.level = "comparison")
                   => /\ ~call.break_token_rule
                      /\ calculateTokens(
                            DS_MinimalListLen(DS_Count(data),
                                Min(DS_Count(data), call.max_display)))
                            > maxTokenCall

\* 201 indices, max_display = 50: the itemized listing is returned
C7_Witness ==
    /\ call.tool = "list_indices"
    /\ data.n = AUTO_SUMMARY_THRESHOLD + 1
    /\ call.max_display = 50
    /\ ~call.summary_mode
    /\ out.kind = "detailed"

\* the cluster answered with an empty dataset
EmptyDataset ==
    /\ Answered
    /\ call.tool \in {"list_indices", "get_mappings", "list_data_streams"}
    /\ ~NonEmpty

\* C8: on an empty dataset list_indices, get_mappings and list_data_streams
\* return an explicit no-results message, with no token computation and no
\* level selection.
C8_EmptyDataset ==
    EmptyDataset => out.kind = "noResults" /\ out.calcs = 0 /\ out.level = ""

\* C9: after a successful startup the registered tools are the five basic
\* tools, plus list_data_streams exactly when the detected version is
\* >= 7.9, and equal CapabilityManager.getSupportedTools().
C9_RegisteredTools ==
    pc = "done" =>
        /\ registeredTools =
              {"list_indices", "get_mappings", "es_search", "execute_es_api",
               "get_shards"}
              \cup (IF versionInfo.major > 7
                       \/ (versionInfo.major = 7 /\ versionInfo.minor >= 9)
                    THEN {"list_data_streams"} ELSE {})
        /\ registeredTools = getSupportedTools(versionInfo)

\* started against a 7.9 cluster: list_data_streams is registered
C9_Witness ==
    /\ pc = "done"
    /\ versionInfo.major = 7
    /\ versionInfo.minor = 9
    /\ "list_data_streams" \in registeredTools

\* C10: no tool is registered unless validation, version detection, client
\* creation and verifyConnection succeeded in that order; verifyConnection
\* never throws; a false result aborts the startup with no tool registered.
C10_StartupOrder ==
    /\ registeredTools # {}
          => /\ steps = <<"validate", "detect", "client", "verify">>
             /\ ConfigValid(config)
             /\ versionInfo # NoVersion
             /\ esClient.ok
    /\ pc # "rejected"
    /\ pc \in {"failed", "rejected"} => registeredTools = {}
    /\ \A hasPing \in BOOLEAN, pingOk \in BOOLEAN, infoOk \in BOOLEAN :
          /\ verifyConnection(hasPing, pingOk, infoOk) \in {"true", "false"}
          /\ verifyConnection(hasPing, pingOk, infoOk) = "false"
                <=> (IF hasPing THEN ~pingOk ELSE ~infoOk)

\* the client was created, verifyConnection returned false: startup
\* aborted, nothing registered
C10_Witness ==
    /\ pc = "failed"
    /\ steps = <<"validate", "detect", "client">>
    /\ esClient.ok
    /\ registeredTools = {}

\* exactly one of username and password is non-empty
HalfPair == Truthy(config.username) # Truthy(config.password)

\* C11: validation rejects every configuration with exactly one of username
\* and password non-empty and accepts every configuration with both or
\* neither (the URL being valid); a rejection comes before the version
\* probe is sent and before any tool is registered.
C11_AuthPair ==
    /\ HalfPair
          => /\ pc \in {"start", "failed"}
             /\ steps = <<>>
             /\ probes = 0
             /\ versionInfo = NoVersion
             /\ registeredTools = {}
    /\ (~HalfPair /\ config.urlOk /\ pc # "start")
          => /\ steps # <<>>
             /\ Head(steps) = "validate"
    /\ (pc = "failed" /\ steps = <<>>)
          => probes = 0 /\ clientsBuilt = 0 /\ registeredTools = {}

\* a password without a username: rejected with no probe sent
C11_Witness ==
    /\ pc = "failed"
    /\ ~Truthy(config.username)
    /\ Truthy(config.password)
    /\ config.urlOk
    /\ probes = 0
    /\ registeredTools = {}

\* C12: a non-empty API key together with a username/password pair is
\* rejected by validation as a configuration error.
C12_Exclusive ==
    (Truthy(config.apiKey) /\ Truthy(config.username)
     /\ Truthy(config.password))
        => pc \in {"start", "failed"} /\ steps = <<>>

\* C13: within one process, over any sequence of sessions and tool calls,
\* version detection and client construction run at most once.
C13_DetectOnce == probes <= 1 /\ clientsBuilt <= 1


\* the probe has been sent and its promise is still pending
ProbePending == probe # NoProbe /\ probe.state = "pending"

ProbeSettled == probe # NoProbe /\ probe.state \in {"resolved", "rejected"}

\* the delivered response is a 200 whose body parses and carries a version
\* number whose first three components parseInt reads as numbers
ParsableVersion ==
    /\ probe.delivered = <<"end">>
    /\ probe.resp.status = HttpOk
    /\ probe.resp.body.json
    /\ probe.resp.body.hasVersion
    /\ \A i \in 1..3 : ~isNaN(parseInt(Part(probe.resp.body.number, i)))

\* C14: whatever the request does (a 200 with a valid body, another
\* status, malformed JSON, no version field, a transport error, a timeout,
\* a timeout followed by the error of the destroyed request), the promise
\* of detectESVersion is settled by the handler of the first event, its
\* state changes exactly once however many times resolve and reject are
\* called, it is resolved only for a 200 response with a parsable
\* version, it is rejected with a message otherwise, and a pending probe
\* always ends settled.
C14_Settles ==
    /\ [](probe # NoProbe =>
            /\ probe.settled <= 1
            /\ ProbeSettled <=> probe.settled = 1
            /\ probe.delivered # <<>> => ProbeSettled
            /\ probe.state = "resolved" => ParsableVersion
            /\ probe.state = "rejected" => probe.error # ""
            /\ (probe.delivered # <<>> /\ ~ParsableVersion)
                   => probe.state = "rejected")
    /\ ProbePending ~> ProbeSettled

\* a timeout followed by the destroyed request's error: reject was called
\* twice and the promise keeps the timeout's message
C14_Witness ==
    /\ probe # NoProbe
    /\ probe.delivered = <<"timeout", "error">>
    /\ probe.calls = 2
    /\ probe.state = "rejected"
    /\ probe.error = "Connection timeout"

\* a component written as unsigned digits and nothing else
Canonical(c) == c.digits # NoDigits /\ ~c.neg /\ ~c.tail

\* C15: when detectESVersion resolves, major, minor and patch are
\* non-negative and version.number consists of exactly those three
\* numbers; a 200 response with any other version string (a missing, a
\* non-numeric or a negative component, digits followed by other
\* characters) is rejected.
C15_FailsClosed ==
    (probe # NoProbe /\ probe.delivered = <<"end">>
     /\ probe.resp.status = HttpOk /\ probe.resp.body.json
     /\ probe.resp.body.hasVersion)
        => LET num == probe.resp.body.number
               wellFormed == /\ Len(num) = 3
                             /\ \A i \in 1..3 : Canonical(num[i])
           IN  /\ probe.state = "resolved"
                     => /\ probe.result.major >= 0
                        /\ probe.result.minor >= 0
                        /\ probe.result.patch >= 0
                        /\ wellFormed
                        /\ probe.result.major = num[1].digits
                        /\ probe.result.minor = num[2].digits
                        /\ probe.result.patch = num[3].digits
               /\ ~wellFormed => probe.state = "rejected"


\* (major, minor) of v is lexicographically at least (M, m)
AtLeast(v, M, m) == v.major > M \/ (v.major = M /\ v.minor >= m)

\* C16: for the detected version the capability manager reports data
\* streams iff it is at least 7.9, searchable snapshots iff at least 7.10,
\* runtime fields iff at least 7.11, ILM iff at least 6.6, SQL iff at
\* least 6.3, point-in-time iff at least 7.10, and mapping types iff the
\* major is below 7.
C16_Capabilities ==
    versionInfo # NoVersion =>
        /\ supportsDataStreams(versionInfo) <=> AtLeast(versionInfo, 7, 9)
        /\ supportsSearchableSnapshots(versionInfo)
              <=> AtLeast(versionInfo, 7, 10)
        /\ supportsRuntimeFields(versionInfo)
              <=> AtLeast(versionInfo, 7, 11)
        /\ supportsILM(versionInfo) <=> AtLeast(versionInfo, 6, 6)
        /\ supportsSQL(versionInfo) <=> AtLeast(versionInfo, 6, 3)
        /\ supportsPointInTime(versionInfo) <=> AtLeast(versionInfo, 7, 10)
        /\ hasMappingTypes(versionInfo) <=> versionInfo.major < 7

\* a 6.4 cluster: SQL and mapping types, no ILM yet
C16_Witness ==
    /\ versionInfo # NoVersion
    /\ versionInfo.major = 6
    /\ versionInfo.minor = 4
    /\ supportsSQL(versionInfo)
    /\ ~supportsILM(versionInfo)
    /\ hasMappingTypes(versionInfo)

\* C17: createVersionedClient returns the implementation of the cluster's
\* major when it is installed, otherwise the newest installed one of a
\* lower major with one warning per step down; it throws only when no
\* implementation of a major up to the cluster's is installed, and the
\* client it built is never of a higher major than the cluster.
C17_Fallback ==
    /\ (versionInfo # NoVersion /\ esClient.ok)
           => esClient.major <= versionInfo.major
    /\ versionInfo # NoVersion =>
           \A installed \in SUBSET ClientMajors :
               LET r == createVersionedClient(versionInfo, installed)
                   lower == {m \in installed : m <= versionInfo.major}
               IN  /\ r.ok <=> lower # {}
                   /\ r.ok => /\ \A m \in lower : m <= r.major
                              /\ r.major \in lower


Analyzed == pc = "analyzed"

SomeHealth(h) ==
    \E i \in 1..Len(data.dsInfo.backing_indices) :
        data.dsInfo.backing_indices[i].health = h

\* the last backing index is larger than 50GB (51200 MiB)
LastOver50Gb ==
    LET bi == data.dsInfo.backing_indices
    IN  Len(bi) > 0 /\ parseSizeToBytes(bi[Len(bi)].store_size) > 51200

RolloverAnomaly ==
    \/ data.dsInfo.indices_count < 5 /\ data.stats.total_size_gb > 100
    \/ data.dsInfo.indices_count > 100 /\ data.stats.total_size_gb < 50

\* C19: the status is critical iff some backing index is red or
\* indices_count exceeds 200; otherwise warning iff some backing index is
\* yellow, the last backing index is larger than 50GB, the rollover
\* frequency is anomalous or no ILM policy is set; otherwise healthy.  A
\* stream with a red backing index is critical whatever else holds.
C19_DecisionTable ==
    Analyzed =>
        LET critical == SomeHealth("red") \/ data.dsInfo.indices_count > 200
            warning == \/ SomeHealth("yellow")
                       \/ LastOver50Gb
                       \/ RolloverAnomaly
                       \/ data.dsInfo.ilm_policy # "set"
        IN  /\ out.status = "critical" <=> critical
            /\ out.status = "warning" <=> (~critical /\ warning)
            /\ out.status = "healthy" <=> (~critical /\ ~warning)
            /\ SomeHealth("red") => out.status = "critical"

\* a red and a yellow backing index, a large current index and no ILM
\* policy: critical
C19_Witness ==
    /\ Analyzed
    /\ SomeHealth("red")
    /\ SomeHealth("yellow")
    /\ LastOver50Gb
    /\ data.dsInfo.ilm_policy = "absent"
    /\ data.dsInfo.indices_count = 5
    /\ out.status = "critical"

InSeq(x, sq) == \E i \in 1..Len(sq) : sq[i] = x

\* C20: every condition that makes the status warning or critical (a red
\* index, a yellow index, more than 200 backing indices, a current index
\* over 50GB, a rollover anomaly, no ILM policy) has an entry in issues
\* and a matching entry in recommendations; so a status other than
\* healthy comes with a non-empty issues list, and a stream with no issue
\* and an ILM policy is healthy.
C20_IssuesRecorded ==
    Analyzed =>
        /\ SomeHealth("red") => /\ InSeq("red", out.issues)
                                /\ InSeq("red", out.recommendations)
        /\ SomeHealth("yellow") => /\ InSeq("yellow", out.issues)
                                   /\ InSeq("yellow", out.recommendations)
        /\ \A t \in {"excessive", "large", "too few", "too many", "no ilm"} :
               InSeq(t, out.issues) <=> InSeq(t, out.recommendations)
        /\ out.excessive_backing_indices => InSeq("excessive", out.issues)
        /\ out.large_current_index => InSeq("large", out.issues)
        /\ out.rollover_issues => \/ InSeq("too few", out.issues)
                                  \/ InSeq("too many", out.issues)
        /\ data.dsInfo.ilm_policy # "set" => InSeq("no ilm", out.issues)
        /\ out.status # "healthy" => out.issues # <<>>
        /\ (out.issues = <<>> /\ data.dsInfo.ilm_policy = "set")
               => out.status = "healthy"

\* the shard list in data has been analyzed
Sharded == pc = "sharded"

\* the started primaries of the list, by position
StartedPrimaries ==
    {i \in 1..Len(data.shards) :
        /\ data.shards[i].prirep = "p"
        /\ data.shards[i].state \in {"STARTED", "started"}}

StartedRows(x) ==
    {i \in 1..Len(data.shards) :
        /\ data.shards[i].index = x
        /\ data.shards[i].state \in {"STARTED", "started"}}

\* replica copies per primary shard of index x: its started replica rows
\* over its started primary rows, as "zero", "one" or "two_plus"
CopiesClass(x) ==
    LET r == Cardinality({i \in StartedRows(x) :
                             data.shards[i].prirep = "r"})
        p == Cardinality({i \in StartedRows(x) :
                             data.shards[i].prirep = "p"})
        d == IF p = 0 THEN 1 ELSE p
    IN  IF 2 * r < d THEN "zero"
        ELSE IF 2 * r < 3 * d THEN "one"
        ELSE "two_plus"

\* C26: by_replica_count counts every index with at least one started
\* shard (in any letter case, as states.started does) exactly once, under
\* zero, one or two_plus according to its replica copies per primary
\* shard, however many nodes host its primaries.
C26_ReplicaClasses ==
    Sharded =>
        LET withStarted == {x \in {"a", "b"} : StartedRows(x) # {}}
            counted(c) == Cardinality({x \in withStarted :
                                          CopiesClass(x) = c})
            by == out.replica_analysis.by_replica_count
        IN  /\ by.zero + by.one + by.two_plus = Cardinality(withStarted)
            /\ by.zero = counted("zero")
            /\ by.one = counted("one")
            /\ by.two_plus = counted("two_plus")

\* C27: an index is in same_node_issues iff the started primary and a
\* started replica of one of its shards are on the same node; a primary
\* that shares its node only with replicas of other shards does not flag
\* the index.
C27_SameNode ==
    Sharded =>
        out.replica_analysis.same_node_issues =
            {x \in {"a", "b"} :
                \E i, j \in StartedRows(x) :
                    /\ data.shards[i].prirep = "p"
                    /\ data.shards[j].prirep = "r"
                    /\ data.shards[i].shard = data.shards[j].shard
                    /\ data.shards[i].node = data.shards[j].node}

\* the groups of a Map, without their order
GroupSet(groups) == {groups[k] : k \in 1..Len(groups)}

\* C22: groupIndicesByPattern of the list and of each of its permutations
\* yield the same groups, with the same pattern, count, totalDocs and
\* earliest and latest date each, whatever order the Map holds them in.
C22_Permutation ==
    pc = "grouped" =>
        \A f \in Permutations(1..Len(data.indices)) :
            GroupSet(groupIndicesByPattern(
                        [i \in 1..Len(data.indices) |-> data.indices[f[i]]]))
                = GroupSet(out.groups)

\* two groups whose order in the Map depends on the order of the input,
\* one of them with dates met in decreasing order
C22_Witness ==
    /\ pc = "grouped"
    /\ Len(data.indices) = 3
    /\ data.indices[1].base = "logs"
    /\ data.indices[1].date = 3
    /\ data.indices[2].date = 0
    /\ data.indices[3].base = "logs"
    /\ data.indices[3].date = 1
    /\ Len(out.groups) = 2
    /\ out.groups[1].pattern = "logs"
    /\ out.groups[1].dateRange = [earliest |-> 1, latest |-> 3]
    /\ out.groups[2].pattern = "other"

\* C29: after sort_by=health every green index precedes every yellow
\* one, every yellow one precedes every red one, and the indices of any
\* other health come last.
C29_HealthOrder ==
    pc = "sorted" =>
        LET rank(h) == CASE h = "green" -> 0
                         [] h = "yellow" -> 1
                         [] h = "red" -> 2
                         [] OTHER -> 3
        IN  \A i, j \in 1..Len(out.indices) :
                rank(out.indices[i].health) < rank(out.indices[j].health)
                    => i < j

\* C23: the capabilities of a field are those of the table (text: S;
\* keyword, numeric, date and ip types: T, A, O, with R for numeric, date
\* and ip; boolean: T, A; geo types: G; nested: N), without A when
\* doc_values is false, and none at all when index is false.
C23_CapabilityTable ==
    pc = "detected" =>
        LET t == data.type
            table ==
                CASE t = "text" -> {"S"}
                  [] t \in KeywordTypes -> {"T", "A", "O"}
                  [] t \in NumericTypes \cup DateTypes \cup {"ip"}
                        -> {"T", "A", "O", "R"}
                  [] t = "boolean" -> {"T", "A"}
                  [] t \in GeoTypes -> {"G"}
                  [] t = "nested" -> {"N"}
                  [] OTHER -> {}
            expected ==
                IF data.fieldDef.index = "false" THEN {}
                ELSE IF data.fieldDef.doc_values = "false"
                THEN table \ {"A"}
                ELSE table
        IN  {out.capabilities[k] : k \in 1..Len(out.capabilities)}
                = expected

\* C24: the adapter selected for the detected version, by getAdapter and
\* by the normalize dispatch, is the one of its major when there is one
\* and otherwise the one of the nearest lower major that has one (the
\* ES 9 adapter for major 10); it is never one of a higher major.
C24_Adapter ==
    versionInfo # NoVersion =>
        LET lower == {m \in AdapterMajors : m <= versionInfo.major}
            nearest == CHOOSE m \in lower : \A k \in lower : k <= m
        IN  /\ lower # {} => /\ getAdapter(versionInfo) = nearest
                             /\ normalizeDispatch(versionInfo) = nearest
            /\ getAdapter(versionInfo) <= versionInfo.major
            /\ normalizeDispatch(versionInfo) <= versionInfo.major

\* C25: the stats are requested in consecutive batches of at most 50
\* names, each name in exactly one batch; a failing batch stops neither
\* the remaining requests nor the result of the call; and for the names
\* of a failed batch no record is produced downstream, neither one with
\* stats nor a placeholder.
C25_Batches ==
    pc = "fetched" =>
        LET req == out.requested
            failedNames == UNION {req[k] : k \in data.failing}
        IN  /\ \A k \in 1..Len(req) :
                  /\ Cardinality(req[k]) <= 50
                  /\ req[k] # {}
                  /\ \A i \in req[k], j \in 1..data.names :
                        (\E l \in k + 1..Len(req) : j \in req[l]) => i < j
            /\ \A i \in 1..data.names :
                  Cardinality({k \in 1..Len(req) : i \in req[k]}) = 1
            /\ Len(req) * 50 >= data.names
            /\ out.returned
            /\ \A i \in failedNames :
                  /\ i \notin out.indexInfoMap
                  /\ ~\E k \in 1..Len(out.backing_indices) :
                         out.backing_indices[k].index = i

\* C28: the search request of es_search names the index of the index
\* parameter, the one whose mapping was fetched, and the timeout '30s',
\* whatever keys queryBody has.
C28_SearchTarget ==
    pc = "searching" =>
        /\ out.searchRequest.index = data.index
        /\ out.searchRequest.index = out.mappingIndex
        /\ out.searchRequest.timeout = "30s"

\* C30: in every step of the HTTP server each session id stays registered
\* to at most one transport; a POST /mcp with a registered session id is
\* handled by the transport registered for it, creates no transport and
\* no server and leaves the registry alone; a GET /mcp with a missing or
\* unregistered session id is answered 400, reaches no transport and
\* leaves the registry alone; and after onsessionclosed for an id the id
\* is not registered.
C30_Registry ==
    [][/\ \A p, q \in transports' : p.id = q.id => p = q
       /\ (/\ call'.route = "POST /mcp"
           /\ call'.session \in RegisteredIds(transports))
              => /\ ~call'.created
                 /\ [id |-> call'.session, transport |-> call'.handledBy]
                       \in transports
                 /\ transports' = transports
                 /\ probes' = probes
                 /\ clientsBuilt' = clientsBuilt
       /\ (/\ call'.route = "GET /mcp"
           /\ call'.session \notin RegisteredIds(transports))
              => /\ call'.status = 400
                 /\ call'.handledBy = 0
                 /\ transports' = transports
       /\ call'.route = "onsessionclosed"
              => call'.session \notin RegisteredIds(transports')
      ]_vars

\* two sessions are registered, each to its own transport, and a POST for
\* the second has been handled by that transport
C30_Witness ==
    /\ pc = "listening"
    /\ Cardinality(transports) = 2
    /\ call.tool = "http"
    /\ call.route = "POST /mcp"
    /\ call.session = 2
    /\ ~call.created
    /\ [id |-> 2, transport |-> call.handledBy] \in transports

====
